---------------------------- MODULE Spec2Model ----------------------------
(***************************************************************************)
(* Model of the xAI / Grok chat-completion client (src/grok_client.py):    *)
(* GrokClient.chat_stream and GrokClient.chat, their retry loop, the       *)
(* rate-limit cooldown, the shared asyncio.Semaphore(5) and the parsing of *)
(* the server-sent-event lines of a streaming response.                    *)
(*                                                                         *)
(* asyncio runs one task at a time and switches only at an await, so each  *)
(* action below is the code between two suspension points of one call.     *)
(***************************************************************************)
EXTENDS Integers, Sequences, FiniteSets, TLC

\* ------------------------------------------------------------------ bounds
\* Number of concurrent calls on the one shared client.
NumCalls == 6
\* Lines the upstream may send to one call, over all of its responses.
MaxLines == 2
\* Failed attempts (429, error status, exception), in total, in the
\* concurrent specification.
ConcFaults == 1
\* Updates (messages and admin commands) received in all.
MaxUpdates == 3
\* The clock readings of one handle_message run span at most this many
\* seconds.
MaxElapsed == 3
\* The final text of a reply is split into at most this many parts.
MaxParts == 2
\* The texts given to split_message are made of at most this many pieces.
MaxPieces == 5
\* The max_length given to split_message is at most this.
MaxLength == 8

\* ------------------------------------------------------- program constants
\* _MAX_RETRIES
MaxRetries == 3
\* The cooldown mistaken for the first backoff delay.
RateLimitDelayAsBackoff == 1

\* _RATE_LIMIT_DELAY
RateLimitDelay == 5
\* asyncio.Semaphore(5)
SemaphorePermits == 5
\* _RETRY_DELAYS
RetryDelays == <<1, 2, 4>>
\* The clock of handle_message is read in whole seconds.
\* `now - last_edit > 2.0`
ReasoningEditGap == 2
\* `now - last_edit > 1.5`, as 2 * (now - last_edit) > 3
ContentEditGapHalves == 3
\* The least reading of time.time(): any value further from the initial
\* last_edit = 0.0 than both gaps, as every real clock reading is.
StartTime == 3

Calls == 1..NumCalls
\* The runs of handle_message; run i consumes call i.
Interactions == {1, 2}
\* COST_PER_M_INPUT and COST_PER_M_OUTPUT, in cents per million tokens.
CostPerMInput == 20
CostPerMOutput == 50

VARIABLES
    kind,        \* kind[c]: "stream" (chat_stream), "chat", or "none" (never called)
    pc,          \* pc[c]: where call c is suspended
    attempt,     \* attempt[c]: the loop variable of `for attempt in range(_MAX_RETRIES)`
    last_error,  \* last_error[c]: the local last_error
    permits,     \* the value of self._semaphore
    holding,     \* the calls inside `async with self._semaphore`
    requests,    \* requests[c]: HTTP requests issued by call c so far
    outcomes,    \* outcomes[c]: how each finished attempt of call c ended
    sleeps,      \* sleeps[c]: the delays passed to asyncio.sleep, in order
    resp,        \* resp[c]: body of the last response of a chat call
    body,        \* body[c]: the lines of the open streaming response
    pos,         \* pos[c]: lines of body[c] read so far
    events,      \* events[c]: the events chat_stream has yielded to its caller
    respStart,   \* respStart[c]: Len(events[c]) when the open response arrived
    result,      \* result[c]: the value returned or the exception raised
    observed,    \* the calls whose history (requests, outcomes, sleeps, resp,
                 \* result) is recorded
    faultBudget, \* failed attempts the environment may still produce
    lineBudget,  \* lines the environment may still send
    hs,          \* hs[i]: the locals and position of run i of handle_message,
                 \* and the calls it made to its collaborators
    sp,          \* the arguments, locals and position of a call of
                 \* split_message, and the cuts it made
    cc,          \* the arguments and the result of a call of calculate_cost
    db,          \* the database: the dynamic_users table and, in insertion
                 \* order, the rows of the conversations table
    ac           \* ac[i]: the update handler i works on, its position in
                 \* check_access and the admin commands, and its replies

vars == <<kind, pc, attempt, last_error, permits, holding, requests, outcomes,
          sleeps, resp, body, pos, events, respStart, result, observed,
          faultBudget, lineBudget, hs, sp, cc, db, ac>>

\* ------------------------------------------------------------------- data
\* Text is a sequence of characters, so that concatenation is \o.
NoUsage == [prompt_tokens |-> 0, completion_tokens |-> 0, reasoning_tokens |-> 0]

Event(type, text, usage) == [type |-> type, text |-> text, usage |-> usage]

NoError == [type |-> "None", attempt |-> 0]
Error(type, a) == [type |-> type, attempt |-> a]

\* What a call returned: nothing yet, or the parsed body of the response to
\* attempt a.
NoValue == [type |-> "NoValue", attempt |-> 0]
Value(a) == [type |-> "Value", attempt |-> a]

\* A delta object; an absent key and an empty value are the same to the code.
Delta(reasoning, tools, content) ==
    [reasoning_content |-> reasoning, tool_calls |-> tools, content |-> content]

\* An element of choices.
Choice(delta) == [delta |-> delta]

\* A payload: j is "DONE" ([DONE]), "bad" (not JSON), "scalar" (JSON, but not
\* an object) or "obj" (a JSON object with its choices and optional usage).
Payload(j, choices, usage) == [j |-> j, choices |-> choices, usage |-> usage]
NoPayload == Payload("none", <<>>, <<>>)

\* A line of the response: t is "blank", "other" (no "data: " prefix) or "data".
Line(t, p) == [t |-> t, p |-> p]

Usage1 == [prompt_tokens |-> 5, completion_tokens |-> 1, reasoning_tokens |-> 2]

LBlank == Line("blank", NoPayload)
LOther == Line("other", NoPayload)
LBad == Line("data", Payload("bad", <<>>, <<>>))
LDone == Line("data", Payload("DONE", <<>>, <<>>))
LScalar == Line("data", Payload("scalar", <<>>, <<>>))
LContent == Line("data", Payload("obj", <<Choice(Delta(<<>>, <<>>, <<"a">>))>>, <<>>))
LUsageOnly == Line("data", Payload("obj", <<>>, <<Usage1>>))
LFull ==
    Line("data", Payload("obj", <<Choice(Delta(<<"r">>, <<"", "t">>, <<"b">>))>>,
                         <<Usage1>>))

LineMenu == {LBlank, LOther, LBad, LDone, LScalar, LContent, LUsageOnly, LFull}

Bodies(n) == UNION {[1..k -> LineMenu] : k \in 0..n}

\* The responses handle_message is run against: frames that deliver events.
EventBodies(n) == UNION {[1..k -> {LContent, LFull}] : k \in 0..n}

\* The same with the [DONE] line, which ends the line loop.
SentinelBodies(n) == UNION {[1..k -> {LContent, LFull, LDone}] : k \in 0..n}

\* Bodies the upstream may send in answer to attempt a of a non-streaming
\* call: JSON or not, and told apart by the attempt they answer.
ChatBodies(a) == {[json |-> TRUE, val |-> a], [json |-> FALSE, val |-> a]}


\* ---------------------------------------------------------- frame parsing
\* The tool_use events of delta.tool_calls: one per call whose function has a
\* non-empty name.
RECURSIVE ToolEvents(_)
ToolEvents(tools) ==
    IF tools = <<>> THEN <<>>
    ELSE (IF Head(tools) # "" THEN <<Event("tool_use", <<Head(tools)>>, NoUsage)>>
          ELSE <<>>) \o ToolEvents(Tail(tools))

\* FrameEvents with `elif` for the content test: a frame that carries reasoning
\* text yields no content event.
FrameEventsElif(p) ==
    LET delta == p.choices[1].delta
        reasoning == IF delta.reasoning_content # <<>>
                     THEN <<Event("reasoning", delta.reasoning_content, NoUsage)>>
                     ELSE <<>>
        content == IF delta.content # <<>> /\ delta.reasoning_content = <<>>
                   THEN <<Event("content", delta.content, NoUsage)>>
                   ELSE <<>>
        done == IF p.usage # <<>>
                THEN <<Event("done", <<>>, p.usage[1])>>
                ELSE <<>>
    IN  reasoning \o ToolEvents(delta.tool_calls) \o content \o done

\* FrameEvents with the content test moved up: content is yielded before the
\* tool_use events.
FrameEventsContentFirst(p) ==
    LET delta == p.choices[1].delta
        reasoning == IF delta.reasoning_content # <<>>
                     THEN <<Event("reasoning", delta.reasoning_content, NoUsage)>>
                     ELSE <<>>
        content == IF delta.content # <<>>
                   THEN <<Event("content", delta.content, NoUsage)>>
                   ELSE <<>>
        done == IF p.usage # <<>>
                THEN <<Event("done", <<>>, p.usage[1])>>
                ELSE <<>>
    IN  reasoning \o content \o ToolEvents(delta.tool_calls) \o done

\* The events of one parsed frame with a non-empty choices list.
FrameEvents(p) ==
    LET delta == p.choices[1].delta
        reasoning == IF delta.reasoning_content # <<>>
                     THEN <<Event("reasoning", delta.reasoning_content, NoUsage)>>
                     ELSE <<>>
        content == IF delta.content # <<>>
                   THEN <<Event("content", delta.content, NoUsage)>>
                   ELSE <<>>
        done == IF p.usage # <<>>
                THEN <<Event("done", <<>>, p.usage[1])>>
                ELSE <<>>
    IN  reasoning \o ToolEvents(delta.tool_calls) \o content \o done

\* ParseLine without the [DONE] test: the sentinel goes to json.loads, fails
\* to parse and is skipped.
ParseLineNoSentinel(line) ==
    IF line.t # "data" THEN [ctl |-> "next", ev |-> <<>>]
    ELSE IF line.p.j \in {"DONE", "bad"} THEN [ctl |-> "next", ev |-> <<>>]
    ELSE IF line.p.j = "scalar" THEN [ctl |-> "raise", ev |-> <<>>]
    ELSE IF line.p.choices = <<>> THEN [ctl |-> "next", ev |-> <<>>]
    ELSE [ctl |-> "next", ev |-> FrameEvents(line.p)]

\* ParseLine without the try around json.loads: JSONDecodeError escapes.
ParseLineStrict(line) ==
    IF line.t # "data" THEN [ctl |-> "next", ev |-> <<>>]
    ELSE IF line.p.j = "DONE" THEN [ctl |-> "break", ev |-> <<>>]
    ELSE IF line.p.j \in {"bad", "scalar"} THEN [ctl |-> "raise", ev |-> <<>>]
    ELSE IF line.p.choices = <<>> THEN [ctl |-> "next", ev |-> <<>>]
    ELSE [ctl |-> "next", ev |-> FrameEvents(line.p)]

\* One iteration of `async for line in response.aiter_lines()`: what the loop
\* does next ("next", "break" or "raise") and the events it yields.
ParseLine(line) ==
    IF line.t # "data" THEN [ctl |-> "next", ev |-> <<>>]
    ELSE IF line.p.j = "DONE" THEN [ctl |-> "break", ev |-> <<>>]
    ELSE IF line.p.j = "bad" THEN [ctl |-> "next", ev |-> <<>>]
    ELSE IF line.p.j = "scalar" THEN [ctl |-> "raise", ev |-> <<>>]
    ELSE IF line.p.choices = <<>> THEN [ctl |-> "next", ev |-> <<>>]
    ELSE [ctl |-> "next", ev |-> FrameEvents(line.p)]

\* ---------------------------------------------------------------- history
\* f with the entry of call c set to v, when the history of c is recorded.
Record(f, c, v) == IF c \in observed THEN [f EXCEPT ![c] = v] ELSE f

\* ------------------------------------------------------------- retry loop
\* `if attempt < _MAX_RETRIES - 1` of the except handler.
ShouldBackoff(a) == a < MaxRetries - 1

\* The delay not indexed by the attempt.
RetryDelayFirst(a) == RetryDelays[1]

\* `_RETRY_DELAYS[attempt]` (attempt counts from 0).
RetryDelay(a) == RetryDelays[a + 1]

\* The loop off by one: range(_MAX_RETRIES + 1).
LoopContinuesOneMore(a) == a + 1 <= MaxRetries

\* Whether `for attempt in range(_MAX_RETRIES)` has another iteration.
LoopContinues(a) == a + 1 < MaxRetries

\* No semaphore: the request is sent without waiting for a permit.
SemAvailableAlways == TRUE

\* `async with self._semaphore` can enter without waiting.
SemAvailable == permits > 0

\* Leaving `async with self._semaphore` without giving the permit back.
ReleaseLeaks(c) ==
    /\ permits' = permits
    /\ holding' = holding \ {c}

\* Leaving `async with self._semaphore`.
Release(c) ==
    /\ permits' = permits + 1
    /\ holding' = holding \ {c}

\* chat without its last line, `raise RuntimeError(...)`.
AfterLoopFallsOff(k, le) ==
    IF le # NoError THEN [pc |-> "raised", result |-> le]
    ELSE [pc |-> "returned", result |-> NoValue]

\* What follows the retry loop once its iterations are used up.
AfterLoop(k, le) ==
    IF le # NoError THEN [pc |-> "raised", result |-> le]
    ELSE IF k = "chat" THEN [pc |-> "raised", result |-> Error("RuntimeError", 0)]
    ELSE [pc |-> "returned", result |-> NoValue]

\* The call ends: its locals are gone.
Discard(c) ==
    /\ attempt' = [attempt EXCEPT ![c] = 0]
    /\ last_error' = [last_error EXCEPT ![c] = NoError]

\* The end of one loop iteration with last_error = le: the next iteration if
\* there is one, and otherwise what follows the loop. Sets attempt,
\* last_error, pc, result.
Advance(c, le) ==
    IF LoopContinues(attempt[c])
    THEN /\ attempt' = [attempt EXCEPT ![c] = @ + 1]
         /\ last_error' = [last_error EXCEPT ![c] = le]
         /\ pc' = [pc EXCEPT ![c] = "acquire"]
         /\ result' = result
    ELSE /\ Discard(c)
         /\ pc' = [pc EXCEPT ![c] = AfterLoop(kind[c], le).pc]
         /\ result' = Record(result, c, AfterLoop(kind[c], le).result)

\* `except Exception as exc:`: last_error is set and, unless this was the last
\* attempt, the call sleeps. Sets last_error, sleeps, attempt, pc, result.
Fail(c, exc) ==
    IF ShouldBackoff(attempt[c])
    THEN /\ last_error' = [last_error EXCEPT ![c] = exc]
         /\ pc' = [pc EXCEPT ![c] = "backoff"]
         /\ sleeps' = Record(sleeps, c, Append(sleeps[c], RetryDelay(attempt[c])))
         /\ UNCHANGED <<attempt, result>>
    ELSE /\ sleeps' = sleeps
         /\ Advance(c, exc)

Outcome(c, o) == outcomes' = Record(outcomes, c, Append(outcomes[c], o))

\* ---------------------------------------------------------------- actions
\* The caller invokes chat_stream or chat: the body is built, last_error is
\* None and the loop starts with attempt 0.
Call(c) ==
    /\ pc[c] = "idle"
    /\ kind[c] # "none"
    /\ pc' = [pc EXCEPT ![c] = "acquire"]
    /\ UNCHANGED <<kind, observed, attempt, last_error, permits, holding, requests,
                   outcomes, sleeps, resp, body, pos, events, respStart,
                   result, faultBudget, lineBudget>>

\* `async with self._semaphore:` is entered and the HTTP request is sent.
Acquire(c) ==
    /\ pc[c] = "acquire"
    /\ SemAvailable
    /\ permits' = permits - 1
    /\ holding' = holding \cup {c}
    /\ requests' = Record(requests, c, requests[c] + 1)
    /\ pc' = [pc EXCEPT ![c] = "request"]
    /\ UNCHANGED <<kind, observed, attempt, last_error, outcomes, sleeps, resp, body,
                   pos, events, respStart, result, faultBudget, lineBudget>>

\* The request fails before a status arrives (connection error, timeout).
ConnectError(c) ==
    /\ pc[c] = "request"
    /\ faultBudget > 0
    /\ faultBudget' = faultBudget - 1
    /\ Release(c)
    /\ Outcome(c, "connect")
    /\ Fail(c, Error("ConnectError", attempt[c] + 1))
    /\ UNCHANGED <<kind, observed, requests, resp, body, pos, events,
                   respStart, lineBudget>>

\* The response has status 429. chat_stream sleeps inside both `async with`
\* blocks; chat has left the semaphore block before it sleeps.
Status429(c) ==
    /\ pc[c] = "request"
    /\ faultBudget > 0
    /\ faultBudget' = faultBudget - 1
    /\ Outcome(c, "429")
    /\ sleeps' = Record(sleeps, c, Append(sleeps[c], RateLimitDelay))
    /\ IF kind[c] = "stream"
       THEN /\ pc' = [pc EXCEPT ![c] = "cooldownHeld"]
            /\ UNCHANGED <<permits, holding>>
       ELSE /\ pc' = [pc EXCEPT ![c] = "cooldown"]
            /\ Release(c)
    /\ UNCHANGED <<kind, observed, attempt, last_error, requests, resp, body, pos,
                   events, respStart, result, lineBudget>>

\* The response has another status than 200 and 429: chat_stream raises
\* HTTPStatusError, chat's raise_for_status() does; both inside the try.
StatusError(c) ==
    /\ pc[c] = "request"
    /\ faultBudget > 0
    /\ faultBudget' = faultBudget - 1
    /\ Release(c)
    /\ Outcome(c, "status")
    /\ Fail(c, Error("HTTPStatusError", attempt[c] + 1))
    /\ UNCHANGED <<kind, observed, requests, resp, body, pos, events,
                   respStart, lineBudget>>

\* chat: the response has status 200. resp.json() returns the parsed body, or
\* raises inside the try when the body is not JSON.
ChatOk(c, b) ==
    /\ pc[c] = "request"
    /\ kind[c] = "chat"
    /\ Release(c)
    /\ resp' = Record(resp, c, b)
    /\ IF b.json
       THEN /\ Outcome(c, "ok")
            /\ pc' = [pc EXCEPT ![c] = "returned"]
            /\ result' = Record(result, c, Value(b.val))
            /\ Discard(c)
            /\ UNCHANGED <<sleeps, faultBudget>>
       ELSE /\ faultBudget > 0
            /\ faultBudget' = faultBudget - 1
            /\ Outcome(c, "process")
            /\ Fail(c, Error("JSONDecodeError", attempt[c] + 1))
    /\ UNCHANGED <<kind, observed, requests, body, pos, events, respStart, lineBudget>>

\* chat_stream: the response has status 200 and the line loop starts. The
\* upstream's lines are b.
StreamOk(c, b) ==
    /\ pc[c] = "request"
    /\ kind[c] = "stream"
    /\ Len(b) <= lineBudget
    /\ lineBudget' = lineBudget - Len(b)
    /\ body' = [body EXCEPT ![c] = b]
    /\ pos' = [pos EXCEPT ![c] = 0]
    /\ respStart' = [respStart EXCEPT ![c] = Len(events[c])]
    /\ pc' = [pc EXCEPT ![c] = "stream"]
    /\ UNCHANGED <<kind, observed, attempt, last_error, permits, holding, requests,
                   outcomes, sleeps, resp, events, result, faultBudget>>

\* chat_stream: one line is read and handled; its events are yielded.
StreamLine(c) ==
    /\ pc[c] = "stream"
    /\ pos[c] < Len(body[c])
    /\ LET r == ParseLine(body[c][pos[c] + 1]) IN
       /\ pos' = [pos EXCEPT ![c] = @ + 1]
       /\ events' = [events EXCEPT ![c] = events[c] \o r.ev]
       /\ CASE r.ctl = "next" ->
                 UNCHANGED <<pc, attempt, last_error, permits, holding,
                             outcomes, sleeps, result, faultBudget>>
            [] r.ctl = "break" ->
                 /\ Release(c)
                 /\ Outcome(c, "ok")
                 /\ pc' = [pc EXCEPT ![c] = "returned"]
                 /\ Discard(c)
                 /\ UNCHANGED <<sleeps, result, faultBudget>>
            [] r.ctl = "raise" ->
                 /\ Release(c)
                 /\ Outcome(c, "process")
                 /\ Fail(c, Error("AttributeError", attempt[c] + 1))
                 /\ UNCHANGED faultBudget
    /\ UNCHANGED <<kind, observed, requests, resp, body, respStart, lineBudget>>

\* chat_stream: the upstream closes the stream after its last line; the line
\* loop ends and the call returns.
StreamEnd(c) ==
    /\ pc[c] = "stream"
    /\ pos[c] = Len(body[c])
    /\ Release(c)
    /\ Outcome(c, "ok")
    /\ pc' = [pc EXCEPT ![c] = "returned"]
    /\ Discard(c)
    /\ UNCHANGED <<kind, observed, requests, sleeps, resp, body, pos, events,
                   respStart, result, faultBudget, lineBudget>>

\* chat_stream: reading the next line fails (connection lost, read timeout).
StreamError(c) ==
    /\ pc[c] = "stream"
    /\ faultBudget > 0
    /\ faultBudget' = faultBudget - 1
    /\ Release(c)
    /\ Outcome(c, "read")
    /\ Fail(c, Error("ReadError", attempt[c] + 1))
    /\ UNCHANGED <<kind, observed, requests, resp, body, pos, events, respStart,
                   lineBudget>>

\* The 5 s rate-limit sleep ends: `continue`. chat_stream leaves its two
\* `async with` blocks only now.
WakeCooldown(c) ==
    /\ pc[c] \in {"cooldownHeld", "cooldown"}
    /\ IF pc[c] = "cooldownHeld" THEN Release(c) ELSE UNCHANGED <<permits, holding>>
    /\ Advance(c, last_error[c])
    /\ UNCHANGED <<kind, observed, requests, outcomes, sleeps, resp, body,
                   pos, events, respStart, faultBudget, lineBudget>>

\* The backoff sleep of the except handler ends.
WakeBackoff(c) ==
    /\ pc[c] = "backoff"
    /\ Advance(c, last_error[c])
    /\ UNCHANGED <<kind, observed, permits, holding, requests, outcomes,
                   sleeps, resp, body, pos, events, respStart, faultBudget,
                   lineBudget>>

\* --------------------------------------------------------- handle_message
\* Interaction i is one run of handle_message; the chat_stream call it
\* consumes is call i. Text is a sequence of abstract characters; its real
\* length, and with it the number of parts of the final text, is an input of
\* the run.

callVars == <<kind, pc, attempt, last_error, permits, holding, requests,
              outcomes, sleeps, resp, body, pos, events, respStart, result,
              observed, faultBudget, lineBudget>>

\* The run of handle_message that consumes call 1.
h == hs[1]

\* update.message.text
Query == <<"q">>

\* Whether the double nearest to a cost that lies halfway between two
\* millionths of a dollar lies above it: the binary representation of the
\* sum decides, and for 5 input and 3 output tokens it does.
HalfwayUp(i, s) == <<i, s>> \in {<<5, 3>>}

\* calculate_cost with the reasoning tokens billed at the input rate.
CalculateCostReasoningAsInput(tokens_in, tokens_out, reasoning_tokens) ==
    LET x == (tokens_in + reasoning_tokens) * CostPerMInput
             + tokens_out * CostPerMOutput
    IN  IF x % 100 > 50 \/ (x % 100 = 50 /\ HalfwayUp(tokens_in, tokens_out))
        THEN x \div 100 + 1 ELSE x \div 100

\* calculate_cost, in millionths of a dollar. The prices are cents per million
\* tokens, so x is the cost in hundredths of a millionth, and round(_, 6)
\* takes it to the nearest millionth.
CalculateCost(tokens_in, tokens_out, reasoning_tokens) ==
    LET s == tokens_out + reasoning_tokens
        x == tokens_in * CostPerMInput + s * CostPerMOutput
    IN  IF x % 100 > 50 \/ (x % 100 = 50 /\ HalfwayUp(tokens_in, s))
        THEN x \div 100 + 1 ELSE x \div 100

\* The token counts calculate_cost is called with: none, a few, and the half
\* million and million the prices are quoted for.
TokenCounts == {0, 2, 4, 6, 500000, 1000000}

\* No call of calculate_cost.
CostIdle ==
    [pc |-> "idle", tokens_in |-> 0, tokens_out |-> 0, reasoning_tokens |-> 0,
     cost |-> 0]

\* calculate_cost returns.
CostReturn ==
    /\ cc.pc = "call"
    /\ cc' = [cc EXCEPT !.pc = "returned",
                        !.cost = CalculateCost(cc.tokens_in, cc.tokens_out,
                                               cc.reasoning_tokens)]
    /\ UNCHANGED <<callVars, hs, sp, db, ac>>

\* One call of sent.edit_text or update.message.reply_text: the segment of
\* the final text it carries (0: none) and whether it succeeded.
Shown(call, seg, ok) == [call |-> call, seg |-> seg, ok |-> ok]

\* One call of save_message or update_daily_stats with its arguments.
Persist(fn, role, content, reasoning, usage, cost) ==
    [fn |-> fn, role |-> role, content |-> content, reasoning |-> reasoning,
     usage |-> usage, cost |-> cost]

\* Every run of handle_message is for the same user, so a row of the
\* conversations table is told apart by the run that inserted it and its role.
Row(i, role) == [run |-> i, role |-> role]

\* The tables after init_db: no dynamic user, no conversation row. The rows
\* of conversations are kept only where `kept` says so: in the specifications
\* that look at their order.
DbEmpty == [dynamic_users |-> {}, conversations |-> <<>>, kept |-> FALSE]

\* The INSERT of save_message: the new row gets the next id.
Insert(rows, row) == IF db.kept THEN Append(rows, row) ELSE rows

\* No update is being handled.
NoUpdate ==
    [kind |-> "none", user |-> 0, target |-> 0, pc |-> "idle", text |-> "none",
     sent |-> <<>>, listed |-> FALSE]

AccessIdle == [started |-> 0, removed |-> {}, h |-> [i \in Interactions |-> NoUpdate]]

\* No run of handle_message.
HandlerIdle ==
    [pc |-> "idle", consumed |-> 0, full_content |-> <<>>,
     full_reasoning |-> <<>>, usage |-> NoUsage, last_edit |-> 0, now |-> 0,
     edit |-> "none", parts |-> 0, part |-> 0, display |-> <<>>,
     persisted |-> <<>>, cancelled |-> FALSE]

\* `full_content = data`: the accumulator keeps the latest delta only.
AccumulateLatest(acc, data) == data

\* `full_content += data`, `full_reasoning += data`.
Accumulate(acc, data) == acc \o data

\* full_content is a variable of the module, shared by all runs.
ContentOwnerShared(i) == 1

\* full_content is a local of the run: the run that owns the accumulator
\* run i writes and reads.
ContentOwner(i) == i

\* An exception of an intermediate edit leaves the loop body.
EditFailureEscapes == FALSE

\* `except Exception: pass` around the intermediate edits.
EditFailureSwallowed == TRUE

\* An exception of a part leaves the loop over the parts.
PartFailureEscapes == FALSE

\* `except Exception` around each reply_text of the loop over parts[1:].
PartFailureSwallowed == TRUE

\* The except branch falls through to the final message.
AfterErrorEditFallThrough == "final"

\* `return` at the end of the except branch.
AfterErrorEdit == "returned"

\* The loop is left as soon as a done event has set usage.
LoopExhaustedAtDone(i) == hs[i].usage # NoUsage

\* `async for` ends: chat_stream returned and every event it yielded has been
\* handled.
LoopExhausted(i) == pc[i] = "returned" /\ hs[i].consumed = Len(events[i])

\* CancelledError derives from Exception and is caught like any failure.
CancellationCaughtAsFailure == TRUE

\* Whether `except Exception` catches CancelledError: it derives from
\* BaseException, so it passes.
CancellationCaught == FALSE

\* handle_message is suspended in `async for`, and chat_stream is running.
GeneratorRuns(i) == hs[i].pc = "await" /\ hs[i].consumed = Len(events[i])

\* The event chat_stream is suspended at, which the loop body handles next.
NextEvent(i) == events[i][hs[i].consumed + 1]

\* The values time.time() may return; the wall clock need not be monotonic.
Readings == StartTime..(StartTime + MaxElapsed)

\* `if now - last_edit > 2.0` without the test.
ReasoningEditDueAlways(i, t) == TRUE

ReasoningEditDue(i, t) == t - hs[i].last_edit > ReasoningEditGap

\* `if now - last_edit > 1.5` without the test.
ContentEditDueAlways(i, t) == TRUE

ContentEditDue(i, t) == 2 * (t - hs[i].last_edit) > ContentEditGapHalves

\* The placeholder message is sent.
Placeholder(i, ok) ==
    /\ hs[i].pc = "start"
    /\ hs' = [hs EXCEPT ![i] =
                [@ EXCEPT !.pc = IF ok THEN "await" ELSE "raised",
                          !.display = Append(@, Shown("placeholder", 0, ok))]]
    /\ UNCHANGED <<callVars, sp, cc, db, ac>>

\* The loop body for a reasoning event; t is the reading of time.time().
ConsumeReasoning(i, t) ==
    /\ hs[i].pc = "await"
    /\ hs[i].consumed < Len(events[i])
    /\ NextEvent(i).type = "reasoning"
    /\ hs' = [hs EXCEPT ![i] =
                [@ EXCEPT !.consumed = @ + 1,
                          !.full_reasoning = Accumulate(@, NextEvent(i).text),
                          !.now = IF ReasoningEditDue(i, t) THEN t ELSE 0,
                          !.pc = IF ReasoningEditDue(i, t)
                                 THEN "editing" ELSE "await",
                          !.edit = IF ReasoningEditDue(i, t)
                                   THEN "progress" ELSE "none"]]
    /\ UNCHANGED <<callVars, sp, cc, db, ac>>

\* The loop body for a content event; t is the reading of time.time().
ConsumeContent(i, t) ==
    /\ hs[i].pc = "await"
    /\ hs[i].consumed < Len(events[i])
    /\ NextEvent(i).type = "content"
    /\ hs' = [hs EXCEPT ![i] =
                [@ EXCEPT !.consumed = @ + 1,
                          !.now = IF ContentEditDue(i, t) THEN t ELSE 0,
                          !.pc = IF ContentEditDue(i, t)
                                 THEN "editing" ELSE "await",
                          !.edit = IF ContentEditDue(i, t)
                                   THEN "preview" ELSE "none"],
                     ![ContentOwner(i)].full_content =
                          Accumulate(@, NextEvent(i).text)]
    /\ UNCHANGED <<callVars, sp, cc, db, ac>>

\* The loop body for a done event.
ConsumeDone(i) ==
    /\ hs[i].pc = "await"
    /\ hs[i].consumed < Len(events[i])
    /\ NextEvent(i).type = "done"
    /\ hs' = [hs EXCEPT ![i] =
                [@ EXCEPT !.consumed = @ + 1, !.usage = NextEvent(i).usage]]
    /\ UNCHANGED <<callVars, sp, cc, db, ac>>

\* The loop body for any other event: no branch matches.
ConsumeOther(i) ==
    /\ hs[i].pc = "await"
    /\ hs[i].consumed < Len(events[i])
    /\ NextEvent(i).type \notin {"reasoning", "content", "done"}
    /\ hs' = [hs EXCEPT ![i] = [@ EXCEPT !.consumed = @ + 1]]
    /\ UNCHANGED <<callVars, sp, cc, db, ac>>

\* The intermediate edit_text call ends, well or not.
EditDone(i, ok) ==
    /\ hs[i].pc = "editing"
    /\ hs' = [hs EXCEPT ![i] =
                [@ EXCEPT !.display = Append(@, Shown(hs[i].edit, 0, ok)),
                          !.edit = "none",
                          !.now = 0,
                          !.last_edit = IF ok \/ EditFailureSwallowed
                                        THEN hs[i].now ELSE @,
                          !.pc = IF ok \/ EditFailureSwallowed
                                 THEN "await" ELSE "error_edit"]]
    /\ UNCHANGED <<callVars, sp, cc, db, ac>>

\* chat_stream raised: the except branch is entered.
StreamRaised(i) ==
    /\ hs[i].pc = "await"
    /\ pc[i] = "raised"
    /\ hs[i].consumed = Len(events[i])
    /\ hs' = [hs EXCEPT ![i] = [@ EXCEPT !.pc = "error_edit"]]
    /\ UNCHANGED <<callVars, sp, cc, db, ac>>

\* The edit_text call of the except branch ends, well or not; its exception
\* is not caught.
ErrorEdit(i, ok) ==
    /\ hs[i].pc = "error_edit"
    /\ hs' = [hs EXCEPT ![i] =
                [@ EXCEPT !.display = Append(@, Shown("error", 0, ok)),
                          !.pc = IF ok THEN AfterErrorEdit ELSE "raised"]]
    /\ UNCHANGED <<callVars, sp, cc, db, ac>>

\* Persistence is skipped when no done event has set usage.
AfterPartsSkipWithoutUsage(i) ==
    IF hs[i].usage = NoUsage THEN "returned" ELSE "save_user"

\* What follows the loop over the parts: the persistence calls.
AfterParts(i) == "save_user"

\* The final edit is tried again when it fails.
AfterFinalEditRetry(i, ok) ==
    IF ~ok THEN "final"
    ELSE IF hs[i].parts > 1 THEN "parts" ELSE AfterParts(i)

\* What follows the final edit, failed or not: the loop over parts[1:].
AfterFinalEdit(i, ok) == IF hs[i].parts > 1 THEN "parts" ELSE AfterParts(i)

\* The loop ended: footer, final text and its n parts.
FinishStream(i, n) ==
    /\ hs[i].pc = "await"
    /\ LoopExhausted(i)
    /\ hs' = [hs EXCEPT ![i] = [@ EXCEPT !.pc = "final", !.parts = n]]
    /\ UNCHANGED <<callVars, sp, cc, db, ac>>

\* `sent.edit_text(parts[0])` ends, well or not.
FinalEdit(i, ok) ==
    /\ hs[i].pc = "final"
    /\ hs' = [hs EXCEPT ![i] =
                [@ EXCEPT !.display = Append(@, Shown("final", 1, ok)),
                          !.part = 1,
                          !.pc = AfterFinalEdit(i, ok)]]
    /\ UNCHANGED <<callVars, sp, cc, db, ac>>

\* One `update.message.reply_text(part)` of the loop over parts[1:].
SendPart(i, ok) ==
    /\ hs[i].pc = "parts"
    /\ hs' = [hs EXCEPT ![i] =
                [@ EXCEPT !.display =
                              Append(@, Shown("part", hs[i].part + 1, ok)),
                          !.part = @ + 1,
                          !.pc = IF ~(ok \/ PartFailureSwallowed) THEN "raised"
                                 ELSE IF hs[i].part + 1 < hs[i].parts
                                 THEN "parts" ELSE AfterParts(i)]]
    /\ UNCHANGED <<callVars, sp, cc, db, ac>>

SaveUser(i) ==
    /\ hs[i].pc = "save_user"
    /\ hs' = [hs EXCEPT ![i] =
                [@ EXCEPT !.persisted = Append(@,
                              Persist("save_message", "user", Query, <<>>,
                                      NoUsage, 0)),
                          !.pc = "save_assistant"]]
    /\ db' = [db EXCEPT !.conversations = Insert(@, Row(i, "user"))]
    /\ UNCHANGED <<callVars, sp, cc, ac>>

SaveAssistant(i) ==
    /\ hs[i].pc = "save_assistant"
    /\ hs' = [hs EXCEPT ![i] =
                [@ EXCEPT !.persisted = Append(@,
                              Persist("save_message", "assistant",
                                      hs[ContentOwner(i)].full_content,
                                      hs[i].full_reasoning, hs[i].usage,
                                      CalculateCost(hs[i].usage.prompt_tokens,
                                          hs[i].usage.completion_tokens,
                                          hs[i].usage.reasoning_tokens))),
                          !.pc = "update_stats"]]
    /\ db' = [db EXCEPT !.conversations = Insert(@, Row(i, "assistant"))]
    /\ UNCHANGED <<callVars, sp, cc, ac>>

UpdateStats(i) ==
    /\ hs[i].pc = "update_stats"
    /\ hs' = [hs EXCEPT ![i] =
                [@ EXCEPT !.persisted = Append(@,
                              Persist("update_daily_stats", "", <<>>, <<>>,
                                      hs[i].usage,
                                      CalculateCost(hs[i].usage.prompt_tokens,
                                          hs[i].usage.completion_tokens,
                                          hs[i].usage.reasoning_tokens))),
                          !.pc = "returned"]]
    /\ UNCHANGED <<callVars, sp, cc, db, ac>>

\* The task is cancelled while chat_stream is suspended in an await of its
\* own: CancelledError is raised there, leaves the `async with` blocks and
\* reaches the except clause of the retry loop and then that of the handler.
CancelInStream(c) ==
    /\ c \in Interactions
    /\ GeneratorRuns(c)
    /\ pc[c] \in {"request", "stream", "cooldownHeld", "backoff"}
    /\ IF c \in holding THEN Release(c) ELSE UNCHANGED <<permits, holding>>
    /\ IF ~CancellationCaught
       THEN /\ pc' = [pc EXCEPT ![c] = "cancelled"]
            /\ result' = Record(result, c, Error("CancelledError", attempt[c] + 1))
            /\ Discard(c)
            /\ sleeps' = sleeps
            /\ hs' = [hs EXCEPT ![c] =
                        [@ EXCEPT !.pc = "cancelled", !.cancelled = TRUE]]
       ELSE /\ Fail(c, Error("CancelledError", attempt[c] + 1))
            /\ hs' = [hs EXCEPT ![c] = [@ EXCEPT !.cancelled = TRUE]]
    /\ UNCHANGED <<kind, observed, requests, outcomes, resp, body, pos, events,
                   respStart, faultBudget, lineBudget, sp, cc, db, ac>>

\* The task is cancelled while handle_message awaits an intermediate edit:
\* the handler is left, chat_stream stays suspended at its yield.
CancelInEdit(i) ==
    /\ hs[i].pc = "editing"
    /\ hs' = [hs EXCEPT ![i] =
                [@ EXCEPT !.pc = "cancelled", !.cancelled = TRUE,
                          !.edit = "none", !.now = 0]]
    /\ UNCHANGED <<callVars, sp, cc, db, ac>>

\* The event loop closes the generator the handler left behind: GeneratorExit
\* at the yield leaves the `async with` blocks.
GenClose(c) ==
    /\ c \in Interactions
    /\ hs[c].pc = "cancelled"
    /\ pc[c] = "stream"
    /\ Release(c)
    /\ pc' = [pc EXCEPT ![c] = "cancelled"]
    /\ result' = Record(result, c, Error("GeneratorExit", attempt[c] + 1))
    /\ Discard(c)
    /\ UNCHANGED <<kind, observed, requests, outcomes, sleeps, resp, body, pos,
                   events, respStart, faultBudget, lineBudget, hs, sp, cc, db, ac>>

\* ----------------------------------------------------------- split_message
\* A text is a sequence of characters.
NL == "\n"
\* The backtick character.
Tick == "tick"
Fence == <<Tick, Tick, Tick>>

\* The texts split_message is called with: concatenations of at most n
\* pieces, each a fence, a letter, a space or a newline.
Pieces == {Fence, <<"x">>, <<" ">>, <<NL>>}

RECURSIVE Texts(_)
Texts(n) ==
    IF n = 0 THEN {<<>>}
    ELSE Texts(n - 1) \cup {t \o p : t \in Texts(n - 1), p \in Pieces}

\* No call of split_message.
SplitIdle ==
    [pc |-> "idle", text |-> <<>>, max_length |-> 0, remaining |-> <<>>,
     parts |-> <<>>, cuts |-> <<>>]

\* s[p:p + len(sub)] == sub, for a position p counted from 0.
HasAt(s, sub, p) ==
    /\ p >= 0
    /\ p + Len(sub) <= Len(s)
    /\ SubSeq(s, p + 1, p + Len(sub)) = sub

\* s.find(sub): the first position.
Find(s, sub) ==
    LET P == {p \in 0..Len(s) : HasAt(s, sub, p)}
    IN  IF P = {} THEN -1 ELSE CHOOSE p \in P : \A q \in P : q >= p

\* s.rfind(sub): the last position where sub occurs in s, or -1.
RFind(s, sub) ==
    LET P == {p \in 0..Len(s) : HasAt(s, sub, p)}
    IN  IF P = {} THEN -1 ELSE CHOOSE p \in P : \A q \in P : q <= p

\* s.count(sub) from position p on: occurrences that do not overlap, taken
\* from the left.
RECURSIVE CountFrom(_, _, _)
CountFrom(s, sub, p) ==
    IF p + Len(sub) > Len(s) THEN 0
    ELSE IF HasAt(s, sub, p) THEN 1 + CountFrom(s, sub, p + Len(sub))
    ELSE CountFrom(s, sub, p + 1)

Count(s, sub) == CountFrom(s, sub, 0)

\* s.lstrip(" \n")
RECURSIVE LStripBlanks(_)
LStripBlanks(s) ==
    IF s # <<>> /\ Head(s) \in {NL, " "} THEN LStripBlanks(Tail(s)) ELSE s

\* s.lstrip("\n")
RECURSIVE LStrip(_)
LStrip(s) == IF s # <<>> /\ Head(s) = NL THEN LStrip(Tail(s)) ELSE s

\* s[:n] and s[n:], for 0 <= n
Take(s, n) == SubSeq(s, 1, IF n < Len(s) THEN n ELSE Len(s))
Drop(s, n) == SubSeq(s, n + 1, Len(s))

\* _find_split_pos with `pos >= 0` for `pos > 0`.
FindSplitPosFromZero(chunk) ==
    IF RFind(chunk, <<NL, NL>>) >= 0 THEN RFind(chunk, <<NL, NL>>)
    ELSE IF RFind(chunk, <<NL>>) >= 0 THEN RFind(chunk, <<NL>>)
    ELSE IF RFind(chunk, <<" ">>) >= 0 THEN RFind(chunk, <<" ">>)
    ELSE Len(chunk)

\* _find_split_pos with the first separator of each kind instead of the last.
FindSplitPosFirst(chunk) ==
    IF Find(chunk, <<NL, NL>>) > 0 THEN Find(chunk, <<NL, NL>>)
    ELSE IF Find(chunk, <<NL>>) > 0 THEN Find(chunk, <<NL>>)
    ELSE IF Find(chunk, <<" ">>) > 0 THEN Find(chunk, <<" ">>)
    ELSE Len(chunk)

\* _find_split_pos
FindSplitPos(chunk) ==
    IF RFind(chunk, <<NL, NL>>) > 0 THEN RFind(chunk, <<NL, NL>>)
    ELSE IF RFind(chunk, <<NL>>) > 0 THEN RFind(chunk, <<NL>>)
    ELSE IF RFind(chunk, <<" ">>) > 0 THEN RFind(chunk, <<" ">>)
    ELSE Len(chunk)

\* The chunk given to _find_split_pos: the first max_length characters,
\* without what follows the start of their last fence when the fences in
\* them are odd in number and the last does not start the chunk.
Window(rem, max_length) ==
    LET chunk == Take(rem, max_length)
    IN  IF Count(chunk, Fence) % 2 # 0 /\ RFind(chunk, Fence) > 0
        THEN Take(chunk, RFind(chunk, Fence))
        ELSE chunk

\* `if len(text) <= max_length: return [text]`
SplitShort ==
    /\ sp.pc = "call"
    /\ Len(sp.text) <= sp.max_length
    /\ sp' = [sp EXCEPT !.parts = <<sp.text>>, !.pc = "returned"]
    /\ UNCHANGED <<callVars, hs, cc, db, ac>>

\* `parts = []; remaining = text`
SplitEnter ==
    /\ sp.pc = "call"
    /\ Len(sp.text) > sp.max_length
    /\ sp' = [sp EXCEPT !.remaining = sp.text, !.pc = "loop"]
    /\ UNCHANGED <<callVars, hs, cc, db, ac>>

\* One iteration of the loop that cuts.
SplitCut ==
    /\ sp.pc = "loop"
    /\ Len(sp.remaining) > sp.max_length
    /\ LET window == Window(sp.remaining, sp.max_length)
           split_pos == FindSplitPos(window)
       IN  sp' = [sp EXCEPT
                    !.parts = Append(@, Take(sp.remaining, split_pos)),
                    !.remaining = LStrip(Drop(sp.remaining, split_pos)),
                    !.cuts = Append(@, [window |-> window, pos |-> split_pos])]
    /\ UNCHANGED <<callVars, hs, cc, db, ac>>

\* The iteration that takes all that remains, and the return that follows.
SplitLast ==
    /\ sp.pc = "loop"
    /\ sp.remaining # <<>>
    /\ Len(sp.remaining) <= sp.max_length
    /\ sp' = [sp EXCEPT !.parts = Append(@, sp.remaining),
                        !.remaining = <<>>, !.pc = "returned"]
    /\ UNCHANGED <<callVars, hs, cc, db, ac>>

\* `while remaining` ends, and `return parts if parts else [text]`.
SplitExhausted ==
    /\ sp.pc = "loop"
    /\ sp.remaining = <<>>
    /\ sp' = [sp EXCEPT !.parts = IF @ # <<>> THEN @ ELSE <<sp.text>>,
                        !.pc = "returned"]
    /\ UNCHANGED <<callVars, hs, cc, db, ac>>

\* ---------------------------------------------------------- specifications
InitCalls ==
    /\ attempt = [c \in Calls |-> 0]
    /\ last_error = [c \in Calls |-> NoError]
    /\ permits = SemaphorePermits
    /\ holding = {}
    /\ requests = [c \in Calls |-> 0]
    /\ outcomes = [c \in Calls |-> <<>>]
    /\ sleeps = [c \in Calls |-> <<>>]
    /\ resp = [c \in Calls |-> [json |-> FALSE, val |-> 0]]
    /\ body = [c \in Calls |-> <<>>]
    /\ pos = [c \in Calls |-> 0]
    /\ events = [c \in Calls |-> <<>>]
    /\ respStart = [c \in Calls |-> 0]
    /\ result = [c \in Calls |-> NoValue]

\* One call, chat_stream or chat, against an upstream free to answer each
\* attempt in any way.
Init ==
    /\ InitCalls
    /\ pc = [c \in Calls |-> "idle"]
    /\ kind \in {k \in [Calls -> {"none", "stream", "chat"}] :
                    /\ k[1] # "none"
                    /\ \A c \in Calls \ {1} : k[c] = "none"}
    /\ observed = {1}
    /\ faultBudget = MaxRetries
    /\ lineBudget = MaxLines
    /\ hs = [i \in Interactions |-> HandlerIdle]
    /\ sp = SplitIdle
    /\ cc = CostIdle
    /\ db = DbEmpty
    /\ ac = AccessIdle

\* NumCalls concurrent calls, one chat_stream and the others chat, all of them
\* invoked and about to enter the semaphore. No history is recorded, and the
\* streaming responses carry no lines: neither touches the semaphore.
InitConc ==
    /\ InitCalls
    /\ pc = [c \in Calls |-> "acquire"]
    /\ kind = [c \in Calls |-> IF c = 1 THEN "stream" ELSE "chat"]
    /\ observed = {}
    /\ faultBudget = ConcFaults
    /\ lineBudget = 0
    /\ hs = [i \in Interactions |-> HandlerIdle]
    /\ sp = SplitIdle
    /\ cc = CostIdle
    /\ db = DbEmpty
    /\ ac = AccessIdle

Next ==
    \E c \in Calls :
        \/ Call(c) /\ UNCHANGED <<hs, sp, cc, db, ac>>
        \/ Acquire(c) /\ UNCHANGED <<hs, sp, cc, db, ac>>
        \/ ConnectError(c) /\ UNCHANGED <<hs, sp, cc, db, ac>>
        \/ Status429(c) /\ UNCHANGED <<hs, sp, cc, db, ac>>
        \/ StatusError(c) /\ UNCHANGED <<hs, sp, cc, db, ac>>
        \/ \E b \in ChatBodies(attempt[c] + 1) : ChatOk(c, b) /\ UNCHANGED <<hs, sp, cc, db, ac>>
        \/ \E b \in Bodies(lineBudget) : StreamOk(c, b) /\ UNCHANGED <<hs, sp, cc, db, ac>>
        \/ StreamLine(c) /\ UNCHANGED <<hs, sp, cc, db, ac>>
        \/ StreamEnd(c) /\ UNCHANGED <<hs, sp, cc, db, ac>>
        \/ StreamError(c) /\ UNCHANGED <<hs, sp, cc, db, ac>>
        \/ WakeCooldown(c) /\ UNCHANGED <<hs, sp, cc, db, ac>>
        \/ WakeBackoff(c) /\ UNCHANGED <<hs, sp, cc, db, ac>>

Spec == Init /\ [][Next]_vars

NextConc ==
    \E c \in Calls :
        \/ Acquire(c) /\ UNCHANGED <<hs, sp, cc, db, ac>>
        \/ ConnectError(c) /\ UNCHANGED <<hs, sp, cc, db, ac>>
        \/ Status429(c) /\ UNCHANGED <<hs, sp, cc, db, ac>>
        \/ StatusError(c) /\ UNCHANGED <<hs, sp, cc, db, ac>>
        \/ \E b \in ChatBodies(attempt[c] + 1) : ChatOk(c, b) /\ UNCHANGED <<hs, sp, cc, db, ac>>
        \/ \E b \in Bodies(lineBudget) : StreamOk(c, b) /\ UNCHANGED <<hs, sp, cc, db, ac>>
        \/ StreamEnd(c) /\ UNCHANGED <<hs, sp, cc, db, ac>>
        \/ StreamError(c) /\ UNCHANGED <<hs, sp, cc, db, ac>>
        \/ WakeCooldown(c) /\ UNCHANGED <<hs, sp, cc, db, ac>>
        \/ WakeBackoff(c) /\ UNCHANGED <<hs, sp, cc, db, ac>>

SpecConc == InitConc /\ [][NextConc]_vars

\* One run of handle_message from the placeholder on, with the chat_stream
\* call it consumes. chat_stream runs only while the handler is suspended in
\* `async for`, and the handler only while chat_stream is suspended at a yield
\* or has ended.
InitHandler ==
    /\ InitCalls
    /\ pc = [c \in Calls |-> "idle"]
    /\ kind = [c \in Calls |-> IF c = 1 THEN "stream" ELSE "none"]
    /\ observed = {}
    /\ faultBudget = MaxRetries
    /\ lineBudget = MaxLines
    /\ hs = [i \in Interactions |->
               IF i = 1 THEN [HandlerIdle EXCEPT !.pc = "start"] ELSE HandlerIdle]
    /\ sp = SplitIdle
    /\ cc = CostIdle
    /\ db = DbEmpty
    /\ ac = AccessIdle

NextHandler ==
    \/ \E ok \in BOOLEAN : Placeholder(1, ok)
    \/ \E c \in Calls :
        \/ GeneratorRuns(1) /\ Call(c) /\ UNCHANGED <<hs, sp, cc, db, ac>>
        \/ GeneratorRuns(1) /\ Acquire(c) /\ UNCHANGED <<hs, sp, cc, db, ac>>
        \/ GeneratorRuns(1) /\ ConnectError(c) /\ UNCHANGED <<hs, sp, cc, db, ac>>
        \/ GeneratorRuns(1) /\ Status429(c) /\ UNCHANGED <<hs, sp, cc, db, ac>>
        \/ GeneratorRuns(1) /\ StatusError(c) /\ UNCHANGED <<hs, sp, cc, db, ac>>
        \/ GeneratorRuns(1) /\ UNCHANGED <<hs, sp, cc, db, ac>>
           /\ \E b \in EventBodies(lineBudget) : StreamOk(c, b)
        \/ GeneratorRuns(1) /\ StreamLine(c) /\ UNCHANGED <<hs, sp, cc, db, ac>>
        \/ GeneratorRuns(1) /\ StreamEnd(c) /\ UNCHANGED <<hs, sp, cc, db, ac>>
        \/ GeneratorRuns(1) /\ StreamError(c) /\ UNCHANGED <<hs, sp, cc, db, ac>>
        \/ GeneratorRuns(1) /\ WakeCooldown(c) /\ UNCHANGED <<hs, sp, cc, db, ac>>
        \/ GeneratorRuns(1) /\ WakeBackoff(c) /\ UNCHANGED <<hs, sp, cc, db, ac>>
    \/ \E t \in Readings : ConsumeReasoning(1, t)
    \/ \E t \in Readings : ConsumeContent(1, t)
    \/ ConsumeDone(1)
    \/ ConsumeOther(1)
    \/ \E ok \in BOOLEAN : EditDone(1, ok)
    \/ StreamRaised(1)
    \/ \E ok \in BOOLEAN : ErrorEdit(1, ok)
    \/ \E n \in 1..MaxParts : FinishStream(1, n)
    \/ \E ok \in BOOLEAN : FinalEdit(1, ok)
    \/ \E ok \in BOOLEAN : SendPart(1, ok)
    \/ SaveUser(1)
    \/ SaveAssistant(1)
    \/ UpdateStats(1)
    \/ CancelInStream(1)
    \/ CancelInEdit(1)
    \/ GenClose(1)

SpecHandler == InitHandler /\ [][NextHandler]_vars

\* The same run with a reply that fits one message, with the history of its
\* chat_stream call recorded (the requests it sent, how each attempt ended,
\* its sleeps), and against responses that may hold the [DONE] line.
InitHandlerObserved ==
    /\ InitCalls
    /\ pc = [c \in Calls |-> "idle"]
    /\ kind = [c \in Calls |-> IF c = 1 THEN "stream" ELSE "none"]
    /\ observed = {1}
    /\ faultBudget = MaxRetries
    /\ lineBudget = MaxLines
    /\ hs = [i \in Interactions |->
               IF i = 1 THEN [HandlerIdle EXCEPT !.pc = "start"] ELSE HandlerIdle]
    /\ sp = SplitIdle
    /\ cc = CostIdle
    /\ db = DbEmpty
    /\ ac = AccessIdle

NextHandlerObserved ==
    \/ \E ok \in BOOLEAN : Placeholder(1, ok)
    \/ \E c \in Calls :
        \/ GeneratorRuns(1) /\ Call(c) /\ UNCHANGED <<hs, sp, cc, db, ac>>
        \/ GeneratorRuns(1) /\ Acquire(c) /\ UNCHANGED <<hs, sp, cc, db, ac>>
        \/ GeneratorRuns(1) /\ ConnectError(c) /\ UNCHANGED <<hs, sp, cc, db, ac>>
        \/ GeneratorRuns(1) /\ Status429(c) /\ UNCHANGED <<hs, sp, cc, db, ac>>
        \/ GeneratorRuns(1) /\ StatusError(c) /\ UNCHANGED <<hs, sp, cc, db, ac>>
        \/ GeneratorRuns(1) /\ UNCHANGED <<hs, sp, cc, db, ac>>
           /\ \E b \in SentinelBodies(lineBudget) : StreamOk(c, b)
        \/ GeneratorRuns(1) /\ StreamLine(c) /\ UNCHANGED <<hs, sp, cc, db, ac>>
        \/ GeneratorRuns(1) /\ StreamEnd(c) /\ UNCHANGED <<hs, sp, cc, db, ac>>
        \/ GeneratorRuns(1) /\ StreamError(c) /\ UNCHANGED <<hs, sp, cc, db, ac>>
        \/ GeneratorRuns(1) /\ WakeCooldown(c) /\ UNCHANGED <<hs, sp, cc, db, ac>>
        \/ GeneratorRuns(1) /\ WakeBackoff(c) /\ UNCHANGED <<hs, sp, cc, db, ac>>
    \/ \E t \in Readings : ConsumeReasoning(1, t)
    \/ \E t \in Readings : ConsumeContent(1, t)
    \/ ConsumeDone(1)
    \/ ConsumeOther(1)
    \/ \E ok \in BOOLEAN : EditDone(1, ok)
    \/ StreamRaised(1)
    \/ \E ok \in BOOLEAN : ErrorEdit(1, ok)
    \/ FinishStream(1, 1)
    \/ \E ok \in BOOLEAN : FinalEdit(1, ok)
    \/ SaveUser(1)
    \/ SaveAssistant(1)
    \/ UpdateStats(1)
    \/ CancelInStream(1)
    \/ CancelInEdit(1)
    \/ GenClose(1)

SpecHandlerObserved == InitHandlerObserved /\ [][NextHandlerObserved]_vars

\* One call of split_message, for every text and max_length of the bounds.
InitSplit ==
    /\ InitCalls
    /\ pc = [c \in Calls |-> "idle"]
    /\ kind = [c \in Calls |-> "none"]
    /\ observed = {}
    /\ faultBudget = 0
    /\ lineBudget = 0
    /\ hs = [i \in Interactions |-> HandlerIdle]
    /\ sp \in {[SplitIdle EXCEPT !.pc = "call", !.text = t, !.max_length = m] :
                  t \in Texts(MaxPieces), m \in 1..MaxLength}
    /\ cc = CostIdle
    /\ db = DbEmpty
    /\ ac = AccessIdle

NextSplit ==
    \/ SplitShort
    \/ SplitEnter
    \/ SplitCut
    \/ SplitLast
    \/ SplitExhausted

SpecSplit == InitSplit /\ [][NextSplit]_vars

\* One call of calculate_cost, for every three token counts of TokenCounts.
InitCost ==
    /\ InitCalls
    /\ pc = [c \in Calls |-> "idle"]
    /\ kind = [c \in Calls |-> "none"]
    /\ observed = {}
    /\ faultBudget = 0
    /\ lineBudget = 0
    /\ hs = [i \in Interactions |-> HandlerIdle]
    /\ sp = SplitIdle
    /\ cc \in {[CostIdle EXCEPT !.pc = "call", !.tokens_in = i, !.tokens_out = o,
                                !.reasoning_tokens = r] :
                  i \in TokenCounts, o \in TokenCounts, r \in TokenCounts}
    /\ db = DbEmpty
    /\ ac = AccessIdle

NextCost == CostReturn

SpecCost == InitCost /\ [][NextCost]_vars

\* Two runs of handle_message side by side, each with its own chat_stream
\* call, against an upstream that answers 200, with a reply that fits one
\* message and a placeholder and a final edit that succeed: the event loop
\* runs one of them from one await to the next, then either.
InitTwo ==
    /\ InitCalls
    /\ pc = [c \in Calls |-> "idle"]
    /\ kind = [c \in Calls |-> IF c \in Interactions THEN "stream" ELSE "none"]
    /\ observed = {}
    /\ faultBudget = 0
    /\ lineBudget = MaxLines
    /\ hs = [i \in Interactions |-> [HandlerIdle EXCEPT !.pc = "start"]]
    /\ sp = SplitIdle
    /\ cc = CostIdle
    /\ db = DbEmpty
    /\ ac = AccessIdle

NextTwo ==
    \/ \E i \in Interactions : Placeholder(i, TRUE)
    \/ \E i \in Interactions :
        \/ GeneratorRuns(i) /\ Call(i) /\ UNCHANGED <<hs, sp, cc, db, ac>>
        \/ GeneratorRuns(i) /\ Acquire(i) /\ UNCHANGED <<hs, sp, cc, db, ac>>
        \/ GeneratorRuns(i) /\ UNCHANGED <<hs, sp, cc, db, ac>>
           /\ \E b \in EventBodies(lineBudget) : StreamOk(i, b)
        \/ GeneratorRuns(i) /\ StreamLine(i) /\ UNCHANGED <<hs, sp, cc, db, ac>>
        \/ GeneratorRuns(i) /\ StreamEnd(i) /\ UNCHANGED <<hs, sp, cc, db, ac>>
    \/ \E i \in Interactions, t \in Readings : ConsumeReasoning(i, t)
    \/ \E i \in Interactions, t \in Readings : ConsumeContent(i, t)
    \/ \E i \in Interactions : ConsumeDone(i)
    \/ \E i \in Interactions : ConsumeOther(i)
    \/ \E i \in Interactions, ok \in BOOLEAN : EditDone(i, ok)
    \/ \E i \in Interactions : FinishStream(i, 1)
    \/ \E i \in Interactions : FinalEdit(i, TRUE)
    \/ \E i \in Interactions : SaveUser(i)
    \/ \E i \in Interactions : SaveAssistant(i)
    \/ \E i \in Interactions : UpdateStats(i)

SpecTwo == InitTwo /\ [][NextTwo]_vars

\* Every await of the run ends: the upstream answers or fails, a display or
\* storage call returns or raises, a sleep is over, and the event loop closes
\* an abandoned generator.
SpecHandlerFair == SpecHandler /\ WF_vars(NextHandler)

\* ------------------------------------------------------------ properties
Terminal(c) == pc[c] \in {"returned", "raised"}

Sleeping(c) == pc[c] \in {"cooldownHeld", "cooldown", "backoff"}

\* The calls whose HTTP request is open: sent, and its response not yet closed.
OpenRequests == {c \in Calls : pc[c] \in {"request", "stream", "cooldownHeld"}}

Last(s) == s[Len(s)]

IsPrefix(s, t) == Len(s) <= Len(t) /\ s = SubSeq(t, 1, Len(s))

IsBackoffDelay(d) == d # 5

\* The events delivered from the response that is open, or was open last.
ResponseEvents(c) == SubSeq(events[c], respStart[c] + 1, Len(events[c]))

\* The concatenation of the payloads of the content events of evs.
RECURSIVE ContentText(_)
ContentText(evs) ==
    IF evs = <<>> THEN <<>>
    ELSE (IF Head(evs).type = "content" THEN Head(evs).text ELSE <<>>)
         \o ContentText(Tail(evs))

\* The concatenation of the delta.content fields of the data frames of lines
\* that are JSON objects; every other line contributes nothing.
RECURSIVE FrameContent(_)
FrameContent(lines) ==
    IF lines = <<>> THEN <<>>
    ELSE LET l == Head(lines) IN
         (IF l.t = "data" /\ l.p.j = "obj" /\ l.p.choices # <<>>
          THEN l.p.choices[1].delta.content ELSE <<>>)
         \o FrameContent(Tail(lines))

\* The lines of a body that precede its first [DONE] line.
RECURSIVE BeforeDone(_)
BeforeDone(lines) ==
    IF lines = <<>> \/ Head(lines) = LDone THEN <<>>
    ELSE <<Head(lines)>> \o BeforeDone(Tail(lines))

\* C1: an attempt that receives a status other than 200 and 429 is the last
\* one of its call: the call raises right after it, with no sleep and no
\* further request.
C1_ErrorStatusFailsAtOnce ==
    \A c \in observed : \A i \in 1..Len(outcomes[c]) :
        outcomes[c][i] = "status" =>
            /\ i = Len(outcomes[c])
            /\ requests[c] = i
            /\ Len(sleeps[c]) = i - 1
            /\ pc[c] = "raised"

\* C2: a chat_stream call whose three attempts all received 429 ends by
\* raising an error, never by completing normally.
C2_StreamAll429Raises ==
    \A c \in observed :
        (kind[c] = "stream" /\ Terminal(c) /\ outcomes[c] = <<"429", "429", "429">>)
            => pc[c] = "raised"

\* C3: a call that is sleeping (rate-limit cooldown or backoff) holds no permit
\* of the semaphore.
C3_NoPermitWhileSleeping ==
    \A c \in Calls : Sleeping(c) => c \notin holding

\* C4: at most 5 chat-completion requests are open at any time, whatever the
\* interleaving of the concurrent calls.
C4_AtMostFiveInFlight ==
    /\ Cardinality(OpenRequests) <= 5
    /\ OpenRequests \subseteq holding
    /\ permits = 5 - Cardinality(holding)

\* C4 witness: five requests are open and another call waits for a permit.
C4_Witness ==
    /\ Cardinality(OpenRequests) = 5
    /\ \E c \in Calls : pc[c] = "acquire" /\ c \notin holding

\* C5: while every attempt of a call has failed with a network error or a
\* timeout, the sleeps taken are 1 s then 2 s; the third such failure ends the
\* call, which raises that third error without another sleep or request.
C5_TransientBackoff ==
    \A c \in observed :
        LET n == Len(outcomes[c]) IN
        (n > 0 /\ \A i \in 1..n : outcomes[c][i] \in {"connect", "read"}) =>
            /\ n <= 3
            /\ requests[c] <= 3
            /\ n < 3 => /\ sleeps[c] = SubSeq(<<1, 2>>, 1, n)
                        /\ ~Terminal(c)
            /\ n = 3 => /\ sleeps[c] = <<1, 2>>
                        /\ requests[c] = 3
                        /\ pc[c] = "raised"
                        /\ result[c] = Error(IF outcomes[c][3] = "connect"
                                             THEN "ConnectError" ELSE "ReadError", 3)

\* C5 witness: a chat_stream call has raised after three network failures,
\* one of them in mid-stream.
C5_Witness ==
    \E c \in observed :
        /\ kind[c] = "stream"
        /\ outcomes[c] = <<"connect", "read", "connect">>
        /\ pc[c] = "raised"

\* C6: a call whose attempts 1 and 2 received 429 and whose attempt 3 succeeded
\* returns what attempt 3 delivered, after exactly two 5 s sleeps and no other.
C6_TwoCooldownsThenSuccess ==
    \A c \in observed :
        (Terminal(c) /\ outcomes[c] = <<"429", "429", "ok">>) =>
            /\ pc[c] = "returned"
            /\ sleeps[c] = <<5, 5>>
            /\ requests[c] = 3
            /\ kind[c] = "chat" => result[c] = Value(3)
            /\ kind[c] = "stream" => /\ respStart[c] = 0
                                     /\ ContentText(events[c]) =
                                            FrameContent(BeforeDone(body[c]))

\* C6 witness: a chat call has returned the body of its third response.
C6_Witness ==
    \E c \in observed :
        /\ kind[c] = "chat"
        /\ outcomes[c] = <<"429", "429", "ok">>
        /\ pc[c] = "returned"
        /\ result[c] = Value(3)

\* C7: a call issues at most 3 HTTP requests, and it raises only after its
\* third attempt has ended.
C7_AttemptSlots ==
    \A c \in observed :
        /\ requests[c] <= 3
        /\ Len(outcomes[c]) <= 3
        /\ pc[c] = "raised" => Len(outcomes[c]) = 3

\* C7 witness: a call has raised after a 429, a network error and a 429.
C7_Witness ==
    \E c \in observed :
        /\ outcomes[c] = <<"429", "connect", "429">>
        /\ requests[c] = 3
        /\ pc[c] = "raised"

\* C8: the backoff sleeps of a call, the 5 s cooldowns left out, are the first
\* delays of the schedule 1 s, 2 s, 4 s in order.
C8_BackoffSkips429 ==
    \A c \in observed :
        IsPrefix(SelectSeq(sleeps[c], IsBackoffDelay), <<1, 2, 4>>)

\* C9: the caller of chat_stream receives at most one done event, and no event
\* after it.
C9_DoneOnceAndLast ==
    \A c \in observed : \A i \in 1..Len(events[c]) :
        events[c][i].type = "done" => i = Len(events[c])

\* C10 as stated: when a 200 response has been read to its end, the content
\* payloads delivered from it concatenate to the delta.content fields of all
\* the well-formed data frames of the response.
C10_ContentOfAllFrames ==
    \A c \in observed :
        (kind[c] = "stream" /\ pc[c] = "returned" /\ Last(outcomes[c]) = "ok") =>
            ContentText(ResponseEvents(c)) = FrameContent(body[c])

\* C10 as amended: the content payloads delivered from a 200 response
\* concatenate to the delta.content fields of the well-formed data frames read
\* so far, and of those that precede the first [DONE] line once the response
\* has been read to its end.
C10_ContentOfFramesBeforeDone ==
    \A c \in observed :
        kind[c] = "stream" =>
            /\ pc[c] = "stream" =>
                   ContentText(ResponseEvents(c)) =
                       FrameContent(SubSeq(body[c], 1, pos[c]))
            /\ (pc[c] = "returned" /\ Last(outcomes[c]) = "ok") =>
                   ContentText(ResponseEvents(c)) =
                       FrameContent(BeforeDone(body[c]))

\* C10 witness: a response of two content-bearing frames has been read to its
\* end and the two payloads were delivered in upstream order.
C10_Witness ==
    \E c \in observed :
        /\ pc[c] = "returned"
        /\ body[c] = <<LFull, LContent>>
        /\ ContentText(ResponseEvents(c)) = <<"b", "a">>

\* The usage counts of the done events of evs, in order.
RECURSIVE DoneUsages(_)
DoneUsages(evs) ==
    IF evs = <<>> THEN <<>>
    ELSE (IF Head(evs).type = "done" THEN <<Head(evs).usage>> ELSE <<>>)
         \o DoneUsages(Tail(evs))

\* The usage objects of the data frames of lines that are JSON objects.
RECURSIVE FrameUsages(_)
FrameUsages(lines) ==
    IF lines = <<>> THEN <<>>
    ELSE LET l == Head(lines) IN
         (IF l.t = "data" /\ l.p.j = "obj" THEN l.p.usage ELSE <<>>)
         \o FrameUsages(Tail(lines))

\* The events the line loop yields for lines, none of which ends the loop.
RECURSIVE LinesEvents(_)
LinesEvents(lines) ==
    IF lines = <<>> THEN <<>>
    ELSE ParseLine(Head(lines)).ev \o LinesEvents(Tail(lines))

\* The last line read from the open response is the [DONE] sentinel.
DoneRead(c) == pos[c] >= 1 /\ body[c][pos[c]] = LDone

\* C11: every JSON-object frame read that carries a usage object has produced
\* a done event with its token counts, with or without choices.
C11_UsageAlwaysDone ==
    \A c \in observed :
        (kind[c] = "stream" /\ pc[c] = "stream") =>
            DoneUsages(ResponseEvents(c)) = FrameUsages(SubSeq(body[c], 1, pos[c]))

\* C12: once the [DONE] line is read, chat_stream has returned normally,
\* without error or retry, no line after the sentinel is read and the events
\* delivered are those of the lines before it.
C12_DoneSentinelEnds ==
    \A c \in observed :
        (kind[c] = "stream" /\ DoneRead(c)) =>
            /\ pc[c] = "returned"
            /\ Last(outcomes[c]) = "ok"
            /\ Len(outcomes[c]) = requests[c]
            /\ result[c] = NoValue
            /\ pos[c] = Len(BeforeDone(body[c])) + 1
            /\ ResponseEvents(c) = LinesEvents(BeforeDone(body[c]))

\* C12 witness: the sentinel was read although a frame with content and usage
\* follows it; nothing was delivered.
C12_Witness ==
    \E c \in observed :
        /\ body[c] = <<LDone, LFull>>
        /\ pos[c] = 1
        /\ pc[c] = "returned"
        /\ events[c] = <<>>

\* C13: reading a data line whose payload is not JSON yields no event, keeps
\* the call in the line loop and starts no retry.
C13_BadJsonSkipped ==
    [][\A c \in observed :
          (/\ pc[c] = "stream"
           /\ pos[c] < Len(body[c])
           /\ body[c][pos[c] + 1] = LBad
           /\ pos'[c] = pos[c] + 1) =>
              /\ pc'[c] = "stream"
              /\ events'[c] = events[c]
              /\ outcomes'[c] = outcomes[c]
              /\ requests'[c] = requests[c]
              /\ sleeps'[c] = sleeps[c]]_vars

\* C13 witness: the frame that follows a line that is not JSON was processed
\* and the call returned after a single attempt.
C13_Witness ==
    \E c \in observed :
        /\ body[c] = <<LBad, LContent>>
        /\ pc[c] = "returned"
        /\ outcomes[c] = <<"ok">>
        /\ events[c] = <<Event("content", <<"a">>, NoUsage)>>

\* C14: a frame with reasoning text, tool calls, content and usage yields the
\* reasoning event, one tool_use event per named call, the content event and
\* the done event, in this order.
C14_FrameEventOrder ==
    \A c \in observed :
        (kind[c] = "stream" /\ pos[c] >= 1 /\ body[c][pos[c]] = LFull) =>
            /\ Len(events[c]) >= 4
            /\ SubSeq(events[c], Len(events[c]) - 3, Len(events[c])) =
                   <<Event("reasoning", <<"r">>, NoUsage),
                     Event("tool_use", <<"t">>, NoUsage),
                     Event("content", <<"b">>, NoUsage),
                     Event("done", <<>>, Usage1)>>

\* C14 witness: such a frame was the first line of a response.
C14_Witness ==
    \E c \in observed :
        /\ pc[c] = "stream"
        /\ pos[c] = 1
        /\ body[c][1] = LFull
        /\ Len(events[c]) = 4

\* The concatenation of the reasoning deltas of evs, in order.
RECURSIVE ReasoningText(_)
ReasoningText(evs) ==
    IF evs = <<>> THEN <<>>
    ELSE (IF Head(evs).type = "reasoning" THEN Head(evs).text ELSE <<>>)
         \o ReasoningText(Tail(evs))

\* The calls of save_message for the assistant reply.
AssistantSaves ==
    {i \in 1..Len(h.persisted) :
        h.persisted[i].fn = "save_message" /\ h.persisted[i].role = "assistant"}

\* The number of display calls of one kind made so far.
Shows(call) == Cardinality({i \in 1..Len(h.display) : h.display[i].call = call})

\* An intermediate edit has failed.
HasFailedEdit ==
    \E i \in 1..Len(h.display) :
        h.display[i].call \in {"progress", "preview"} /\ ~h.display[i].ok

\* C15: the accumulators hold the concatenation of the deltas handled so far,
\* and the assistant reply is saved with the concatenation of all content
\* deltas and of all reasoning deltas chat_stream delivered, whatever the
\* intermediate edits did.
C15_SavedTextIsAllDeltas ==
    /\ h.full_content = ContentText(SubSeq(events[1], 1, h.consumed))
    /\ h.full_reasoning = ReasoningText(SubSeq(events[1], 1, h.consumed))
    /\ \A i \in AssistantSaves :
          /\ h.persisted[i].content = ContentText(events[1])
          /\ h.persisted[i].reasoning = ReasoningText(events[1])

\* C15 witness: a reply of two content deltas and a reasoning delta was saved
\* after an intermediate edit had failed.
C15_Witness ==
    /\ HasFailedEdit
    /\ \E i \in AssistantSaves :
          /\ Len(h.persisted[i].content) = 2
          /\ h.persisted[i].reasoning # <<>>

\* C16: when chat_stream has raised, handle_message makes the error edit once
\* and returns or fails there: no final edit, no part, no persistence.
C16_RaiseGoesToError ==
    pc[1] = "raised" =>
        /\ h.pc \in {"await", "error_edit", "returned", "raised"}
        /\ h.persisted = <<>>
        /\ Shows("final") = 0
        /\ Shows("part") = 0
        /\ Shows("error") = IF h.pc \in {"returned", "raised"} THEN 1 ELSE 0

\* C16 witness: chat_stream raised after content had been accumulated, and
\* the handler returned after the error edit.
C16_Witness ==
    /\ pc[1] = "raised"
    /\ h.pc = "returned"
    /\ h.full_content # <<>>
    /\ h.display[Len(h.display)] = Shown("error", 0, TRUE)

\* C17: an exception leaves handle_message only if the placeholder could not
\* be sent; no later display call lets its failure out.
C17_DisplayFailuresContained ==
    h.pc = "raised" => h.display[Len(h.display)].call = "placeholder"

C19_PersistAfterStream ==
    h.persisted # <<>> =>
        /\ pc[1] = "returned"
        /\ h.consumed = Len(events[1])
        /\ Shows("final") = 1
        /\ h.part = h.parts

\* C19 witness: the first persistence call of a run that received events.
C19_Witness ==
    /\ Len(h.persisted) = 1
    /\ events[1] # <<>>

\* C20: once the task is cancelled the handler is left at once and nothing
\* is persisted; chat_stream starts no further attempt and sleeps no more;
\* when it has ended it holds no permit; and it does end.
C20_CancelNotRetried ==
    /\ [](h.cancelled =>
            /\ h.pc = "cancelled"
            /\ h.persisted = <<>>
            /\ pc[1] \in {"stream", "cancelled"}
            /\ pc[1] = "cancelled" => (1 \notin holding /\ permits = SemaphorePermits))
    /\ [][h.cancelled => (pc'[1] = pc[1] \/ pc'[1] = "cancelled")]_vars
    /\ (h.cancelled ~> (pc[1] = "cancelled" /\ 1 \notin holding))

\* C20 witness: the task was cancelled with a response open and content
\* accumulated, and the permit is back.
C20_Witness ==
    /\ h.cancelled
    /\ h.full_content # <<>>
    /\ pc[1] = "cancelled"
    /\ permits = SemaphorePermits

\* The calls of update_daily_stats.
StatsUpdates ==
    {i \in 1..Len(h.persisted) : h.persisted[i].fn = "update_daily_stats"}

\* The final edit and the part sends made so far, in order.
RECURSIVE Segments(_)
Segments(shown) ==
    IF shown = <<>> THEN <<>>
    ELSE (IF Head(shown).call \in {"final", "part"}
          THEN <<[call |-> Head(shown).call, seg |-> Head(shown).seg]>>
          ELSE <<>>)
         \o Segments(Tail(shown))

C22_OneFlushOnePersist ==
    (pc[1] = "returned" /\ h.pc = "returned") =>
        /\ Shows("final") = 1
        /\ Cardinality(AssistantSaves) = 1
        /\ Cardinality(StatsUpdates) = 1
        /\ \A i \in AssistantSaves \cup StatsUpdates :
              LET u == IF DoneUsages(events[1]) = <<>> THEN NoUsage
                       ELSE Last(DoneUsages(events[1]))
              IN  /\ h.persisted[i].usage = u
                  /\ h.persisted[i].cost =
                         CalculateCost(u.prompt_tokens, u.completion_tokens,
                                       u.reasoning_tokens)

\* C22 witness: a run whose stream delivered a done event has returned, its
\* final edit having failed.
C22_Witness ==
    /\ pc[1] = "returned"
    /\ h.pc = "returned"
    /\ DoneUsages(events[1]) # <<>>
    /\ \E i \in 1..Len(h.display) : h.display[i] = Shown("final", 1, FALSE)
    /\ \E i \in StatsUpdates : h.persisted[i].cost = 3

\* C23: the segments attempted so far are segments 1, 2, ... in this order,
\* each once, the first by the final edit and the others by part sends,
\* whatever their outcomes; no failure of theirs ends the run; and when the
\* persistence starts every segment has been attempted.
C23_SegmentsOnceInOrder ==
    /\ Segments(h.display) =
           [k \in 1..h.part |->
               [call |-> IF k = 1 THEN "final" ELSE "part", seg |-> k]]
    /\ h.part <= h.parts
    /\ h.pc = "raised" => h.part = 0
    /\ h.pc \in {"save_user", "save_assistant", "update_stats"} =>
           h.part = h.parts
    /\ (h.pc = "returned" /\ pc[1] = "returned") => h.part = h.parts

\* C23 witness: the final edit of a text of two segments failed, and the
\* second segment was sent.
C23_Witness ==
    /\ h.parts = 2
    /\ h.part = 2
    /\ \E i \in 1..Len(h.display) : h.display[i] = Shown("final", 1, FALSE)
    /\ h.display[Len(h.display)].call = "part"

\* The positions of the fences of s from position p on, from the left and
\* without overlap.
RECURSIVE FenceStarts(_, _)
FenceStarts(s, p) ==
    IF p + 3 > Len(s) THEN <<>>
    ELSE IF HasAt(s, Fence, p) THEN <<p>> \o FenceStarts(s, p + 3)
    ELSE FenceStarts(s, p + 1)

\* The fences of s pair up, and every fenced block, fences included, is
\* shorter than n.
BalancedShortBlocks(s, n) ==
    LET f == FenceStarts(s, 0)
    IN  /\ Len(f) % 2 = 0
        /\ \A k \in 1..Len(f) : k % 2 = 0 => f[k] + 3 - f[k - 1] < n

AllNewlines(s) == \A k \in 1..Len(s) : s[k] = NL

\* t is the segments of segs in order, with nothing but newlines left out,
\* and these only right after a segment.
RECURSIVE Rebuilds(_, _)
Rebuilds(segs, t) ==
    IF segs = <<>> THEN t = <<>>
    ELSE /\ IsPrefix(Head(segs), t)
         /\ \E k \in 0..(Len(t) - Len(Head(segs))) :
               /\ AllNewlines(SubSeq(t, Len(Head(segs)) + 1, Len(Head(segs)) + k))
               /\ Rebuilds(Tail(segs), Drop(t, Len(Head(segs)) + k))

\* The positions after the first character of w where sub occurs.
InnerAt(w, sub) == {q \in 1..Len(w) : HasAt(w, sub, q)}

\* The positions of w where sub occurs.
AnyAt(w, sub) == {q \in 0..Len(w) : HasAt(w, sub, q)}

Greatest(S) == CHOOSE q \in S : \A r \in S : r <= q

\* C24: for a text whose fences are balanced and whose fenced blocks are
\* shorter than max_length, every segment split_message returns holds an
\* even number of fences.
C24_NoCutInsideFence ==
    (sp.pc = "returned" /\ BalancedShortBlocks(sp.text, sp.max_length)) =>
        \A k \in 1..Len(sp.parts) : Count(sp.parts[k], Fence) % 2 = 0

\* C25: split_message returns [text] for a text no longer than max_length,
\* and otherwise segments that give back the text when put together, but
\* for newlines left out right after a cut.
C25_SegmentsRebuildText ==
    sp.pc = "returned" =>
        IF Len(sp.text) <= sp.max_length THEN sp.parts = <<sp.text>>
        ELSE Rebuilds(sp.parts, sp.text)

\* C25 witness: a text was cut at a newline and at a space; the newline is
\* gone and the space kept.
C25_Witness ==
    /\ sp.pc = "returned"
    /\ sp.text = <<"x", NL, "x", " ", "x">>
    /\ sp.max_length = 2
    /\ sp.parts = <<<<"x">>, <<"x">>, <<" ", "x">>>>

\* What is left of the call: the characters still to split, and the steps
\* around the loop.
SplitMeasure ==
    CASE sp.pc = "call" -> Len(sp.text) + 2
      [] sp.pc = "loop" -> Len(sp.remaining) + 1
      [] OTHER -> 0

\* C26: for a text that is not empty, every segment a step of the call adds
\* is not empty and at most max_length long, every turn of the loop takes at
\* least one character, and the call returns: every step of it leaves less
\* to do.
C26_SegmentsBoundedAndProgress ==
    [][/\ sp.text # <<>> =>
            \A k \in 1..Len(sp'.parts) :
                Len(sp'.parts[k]) >= 1 /\ Len(sp'.parts[k]) <= sp.max_length
       /\ (sp.pc = "loop" /\ sp'.pc = "loop") =>
            Len(sp'.remaining) < Len(sp.remaining)
       /\ SplitMeasure' < SplitMeasure]_vars

\* C26 witness: a text of five characters was split with max_length 1.
C26_Witness ==
    /\ sp.pc = "returned"
    /\ sp.max_length = 1
    /\ Len(sp.text) = 5
    /\ Len(sp.parts) >= 3

\* C27 as stated: every cut is at the last blank line of the window if it has
\* one, else at its last newline, else at its last space, else at its end.
C27_CutPreference ==
    \A k \in 1..Len(sp.cuts) :
        LET w == sp.cuts[k].window
            p == sp.cuts[k].pos
        IN  IF AnyAt(w, <<NL, NL>>) # {} THEN p = Greatest(AnyAt(w, <<NL, NL>>))
            ELSE IF AnyAt(w, <<NL>>) # {} THEN p = Greatest(AnyAt(w, <<NL>>))
            ELSE IF AnyAt(w, <<" ">>) # {} THEN p = Greatest(AnyAt(w, <<" ">>))
            ELSE p = Len(w)

\* C27 amended: the same, a separator that starts the window not counting.
C27_CutPreferenceInside ==
    \A k \in 1..Len(sp.cuts) :
        LET w == sp.cuts[k].window
            p == sp.cuts[k].pos
        IN  IF InnerAt(w, <<NL, NL>>) # {} THEN p = Greatest(InnerAt(w, <<NL, NL>>))
            ELSE IF InnerAt(w, <<NL>>) # {} THEN p = Greatest(InnerAt(w, <<NL>>))
            ELSE IF InnerAt(w, <<" ">>) # {} THEN p = Greatest(InnerAt(w, <<" ">>))
            ELSE p = Len(w)

\* C27 witness: a window that starts with a space and has two more was cut
\* at the last of them.
C27_Witness ==
    \E k \in 1..Len(sp.cuts) :
        /\ sp.cuts[k].window = <<" ", " ", "x", " ">>
        /\ sp.cuts[k].pos = 3

\* C28: an intermediate edit is attempted on a content event only if the
\* reading of the clock is more than 1.5 s past last_edit, and on a reasoning
\* event only if it is more than 2.0 s past it; last_edit is the reading of
\* the last attempt, whether that attempt succeeded or not, and nothing else
\* changes it.
C28_EditsThrottled ==
    [][/\ (h.pc = "await" /\ h'.pc = "editing") =>
            /\ NextEvent(1).type \in {"content", "reasoning"}
            /\ NextEvent(1).type = "content" =>
                  2 * (h'.now - h.last_edit) > ContentEditGapHalves
            /\ NextEvent(1).type = "reasoning" =>
                  h'.now - h.last_edit > ReasoningEditGap
       /\ (h.pc = "editing" /\ h'.pc = "await") => h'.last_edit = h.now
       /\ h'.last_edit # h.last_edit => h.pc = "editing"]_vars

\* C28 witness: an intermediate edit failed and a later one was attempted.
C28_Witness ==
    \E j, k \in 1..Len(h.display) :
        /\ j < k
        /\ h.display[j].call \in {"progress", "preview"}
        /\ ~h.display[j].ok
        /\ h.display[k].call = "preview"

\* The token counts run i has received: those of the last done event handled.
OwnUsage(i) ==
    LET u == DoneUsages(SubSeq(events[i], 1, hs[i].consumed))
    IN  IF u = <<>> THEN NoUsage ELSE Last(u)

\* C29: of two runs side by side, each holds in its accumulators the deltas
\* and in its usage the token counts of its own stream, every persistence
\* call of a run carries the content, reasoning and token counts of its own
\* stream, and a step of one run changes nothing of the other, its last_edit
\* included.
C29_RunsShareNothing ==
    /\ [](\A i \in Interactions :
            /\ hs[i].full_content =
                   ContentText(SubSeq(events[i], 1, hs[i].consumed))
            /\ hs[i].full_reasoning =
                   ReasoningText(SubSeq(events[i], 1, hs[i].consumed))
            /\ hs[i].usage = OwnUsage(i)
            /\ \A k \in 1..Len(hs[i].persisted) :
                  LET p == hs[i].persisted[k] IN
                  /\ p.role # "user" => p.usage = OwnUsage(i)
                  /\ (p.fn = "save_message" /\ p.role = "assistant") =>
                        /\ p.content = ContentText(events[i])
                        /\ p.reasoning = ReasoningText(events[i]))
    /\ [][\A i, j \in Interactions :
            (i # j /\ hs'[i] # hs[i]) =>
                (hs'[j] = hs[j] /\ events'[j] = events[j])]_vars

\* C29 witness: run 1 has saved its reply "a" while run 2, in the middle of
\* its stream, holds "b".
C29_Witness ==
    /\ hs[2].pc = "await"
    /\ hs[2].full_content = <<"b">>
    /\ hs[2].consumed < Len(events[2])
    /\ \E k \in 1..Len(hs[1].persisted) :
          /\ hs[1].persisted[k].role = "assistant"
          /\ hs[1].persisted[k].content = <<"a">>

\* C30: the cost calculate_cost returns is that of the same input tokens
\* with the reasoning tokens counted as output tokens; it is the price,
\* 0.20 dollars for a million input tokens and 0.50 dollars for a million
\* output and reasoning tokens, to the nearest millionth of a dollar.
C30_CostFormula ==
    cc.pc = "returned" =>
        /\ cc.cost = CalculateCost(cc.tokens_in,
                                   cc.tokens_out + cc.reasoning_tokens, 0)
        /\ (cc.tokens_in = 1000000 /\ cc.tokens_out + cc.reasoning_tokens = 0) =>
              cc.cost = 200000
        /\ (cc.tokens_in = 0 /\ cc.tokens_out = 500000
                /\ cc.reasoning_tokens = 500000) => cc.cost = 500000
        /\ LET x == 20 * cc.tokens_in
                    + 50 * (cc.tokens_out + cc.reasoning_tokens)
           IN  100 * cc.cost - x \in -50..50

\* C30 witness: the cost of half a million output and half a million
\* reasoning tokens was calculated.
C30_Witness ==
    /\ cc.pc = "returned"
    /\ cc.tokens_in = 0
    /\ cc.tokens_out = 500000
    /\ cc.reasoning_tokens = 500000
    /\ cc.cost = 500000

\* C31: once a chat_stream call has delivered an event it starts no further
\* attempt, and the events it has delivered all come from one response.
C31_NoRetryAfterEvents ==
    \A c \in observed :
        (kind[c] = "stream" /\ events[c] # <<>>) =>
            /\ pc[c] \notin {"acquire", "request"}
            /\ respStart[c] = 0

\* Some attempt of call c has received a 200 response: it is reading one, or
\* one of its attempts ended after the status 200 had arrived.
Got200(c) ==
    \/ pc[c] = "stream"
    \/ \E k \in 1..Len(outcomes[c]) : outcomes[c][k] \in {"ok", "read", "process"}

\* C32: the assistant reply is saved and the daily stats are updated only if
\* an attempt of the chat_stream call received a 200 response; when the call
\* has ended without one, the run ends with the error message shown and
\* nothing persisted.
C32_PersistOnlyAfter200 ==
    /\ h.persisted # <<>> => Got200(1)
    /\ (Terminal(1) /\ ~Got200(1) /\ h.pc \in {"returned", "raised"}) =>
            /\ Shows("error") = 1
            /\ h.persisted = <<>>

\* C33: a chat call that has returned returns the body of its last attempt,
\* which received a success status; a chat call whose three attempts all
\* received 429 has raised.
C33_ChatReturnsOnlyOn200 ==
    \A c \in observed : kind[c] = "chat" =>
        /\ pc[c] = "returned" =>
              /\ outcomes[c] # <<>>
              /\ Last(outcomes[c]) = "ok"
              /\ resp[c].json
              /\ resp[c].val = Len(outcomes[c])
              /\ result[c] = Value(resp[c].val)
        /\ (Terminal(c) /\ outcomes[c] = <<"429", "429", "429">>) =>
              /\ pc[c] = "raised"
              /\ result[c].type = "RuntimeError"

\* C33 witness: a chat call has raised after three 429 responses.
C33_Witness ==
    \E c \in observed :
        /\ kind[c] = "chat"
        /\ outcomes[c] = <<"429", "429", "429">>
        /\ pc[c] = "raised"

FaultyCalls == {1, 2}

InitWait ==
    /\ InitCalls
    /\ pc = [c \in Calls |-> "acquire"]
    /\ kind = [c \in Calls |-> IF c = 1 THEN "stream" ELSE "chat"]
    /\ observed = {}
    /\ faultBudget = MaxRetries * Cardinality(FaultyCalls)
    /\ lineBudget = 0
    /\ hs = [i \in Interactions |-> HandlerIdle]
    /\ sp = SplitIdle
    /\ cc = CostIdle
    /\ db = DbEmpty
    /\ ac = AccessIdle

NextWait ==
    \/ \E c \in Calls :
        \/ Acquire(c) /\ UNCHANGED <<hs, sp, cc, db, ac>>
        \/ ChatOk(c, [json |-> TRUE, val |-> attempt[c] + 1]) /\ UNCHANGED <<hs, sp, cc, db, ac>>
        \/ \E b \in Bodies(lineBudget) : StreamOk(c, b) /\ UNCHANGED <<hs, sp, cc, db, ac>>
        \/ StreamEnd(c) /\ UNCHANGED <<hs, sp, cc, db, ac>>
        \/ WakeCooldown(c) /\ UNCHANGED <<hs, sp, cc, db, ac>>
        \/ WakeBackoff(c) /\ UNCHANGED <<hs, sp, cc, db, ac>>
    \/ \E c \in FaultyCalls :
        \/ ConnectError(c) /\ UNCHANGED <<hs, sp, cc, db, ac>>
        \/ Status429(c) /\ UNCHANGED <<hs, sp, cc, db, ac>>
        \/ StreamError(c) /\ UNCHANGED <<hs, sp, cc, db, ac>>

SpecWait == InitWait /\ [][NextWait]_vars /\ WF_vars(NextWait)

\* C35: under fair scheduling every chat_stream and chat call terminates, it
\* makes at most three attempts, no call stays at the semaphore forever, and
\* the calls never come to a halt with one of them unfinished.
C35_CallsTerminate ==
    /\ [](\A c \in Calls : attempt[c] < 3)
    /\ <>(\A c \in Calls : Terminal(c))

\* Six callers met five permits, the streaming call and one non-streaming
\* call failed three attempts each and raised, and every call has finished.
C35_Witness ==
    /\ \A c \in Calls : Terminal(c)
    /\ pc[1] = "raised" /\ pc[2] = "raised"
    /\ faultBudget = 0
    /\ permits = 5


\* C36: a call never sleeps after its last allowed attempt: of its three
\* attempts at most the first two are followed by a cooldown or a backoff
\* sleep, and a call that sleeps has an attempt left.
C36_NoSleepAfterLastAttempt ==
    \A c \in observed :
        /\ Len(sleeps[c]) < 3
        /\ Sleeping(c) => attempt[c] + 1 < 3


\* --------------------------------------------------------- access control
\* ALLOWED_USER_IDS holds the ids 1 and 2, in this order, and ADMIN_USER_ID
\* is left at its default. User 3 is in neither.
AllowedUserIds == <<1, 2>>

AdminUserId == 0

Users == {1, 2, 3}

\* The argument of /adduser and /removeuser as _parse_user_id returns it: a
\* user id, or 0 for None (no argument, or one that is not a number).
Targets == {0, 2, 3}

\* Settings.allowed_users
AllowedUsers ==
    {AllowedUserIds[k] : k \in 1..Len(AllowedUserIds)}
        \cup (IF AdminUserId # 0 THEN {AdminUserId} ELSE {})

\* Settings.admin_id
AdminId == IF AllowedUserIds # <<>> THEN AllowedUserIds[1] ELSE AdminUserId

\* Settings.is_allowed
IsAllowed(u) == u \in AllowedUsers

\* The admin commands without the is_admin test.
IsAdminAnyone(u) == TRUE

\* Settings.is_admin
IsAdmin(u) == u = AdminId

\* How a call of a db function ends: the statement ran ("ok"), it raised
\* inside the try ("error"), or _get_db raised before the try ("noconn").
DbOutcomes == {"ok", "error", "noconn"}

\* is_dynamic_user_allowed returning True from its except branch.
DynamicAllowedFailOpen(o, u) == o = "error" \/ u \in db.dynamic_users

\* The value is_dynamic_user_allowed returns when _get_db did not raise.
DynamicAllowed(o, u) == o = "ok" /\ u \in db.dynamic_users

\* The handler is about to send `text` with reply_text.
Say(r, text) == [r EXCEPT !.pc = "reply", !.text = text]

\* check_access returned True: the handler runs to its next await.
Proceed(r) ==
    IF r.kind = "message" THEN [r EXCEPT !.pc = "passed"]
    ELSE IF ~IsAdmin(r.user) THEN Say(r, "admin_only")
    ELSE IF r.target = 0 THEN Say(r, "usage")
    ELSE IF r.kind = "adduser"
         THEN IF r.target \in AllowedUsers THEN Say(r, "already")
              ELSE [r EXCEPT !.pc = "target_lookup"]
         ELSE IF r.target \in AllowedUsers THEN Say(r, "static_refused")
              ELSE [r EXCEPT !.pc = "remove"]

\* An update of user u reaches handler k, which calls check_access: a user of
\* the static list passes at once, for another the dynamic list is asked. The
\* update is run i, the first one that is free.
Receive(i, k, u, t) ==
    /\ ac.h[i].pc \in {"idle", "returned", "raised"}
    /\ \A j \in 1..(i - 1) : ac.h[j].pc \notin {"idle", "returned", "raised"}
    /\ ac.started < MaxUpdates
    /\ k = "message" => t = 0
    /\ LET r == [NoUpdate EXCEPT !.kind = k, !.user = u, !.target = t,
                                 !.listed = IsAllowed(u)]
       IN ac' = [ac EXCEPT !.started = @ + 1,
                           !.h[i] = IF IsAllowed(u) THEN Proceed(r)
                                    ELSE [r EXCEPT !.pc = "lookup"]]
    /\ UNCHANGED <<callVars, hs, sp, cc, db>>

\* check_access: is_dynamic_user_allowed(user_id) ends.
Lookup(i, o) ==
    /\ ac.h[i].pc = "lookup"
    /\ LET r == [ac.h[i] EXCEPT !.listed = ac.h[i].user \in db.dynamic_users]
       IN ac' = [ac EXCEPT !.h[i] =
                    IF o = "noconn" THEN [r EXCEPT !.pc = "raised"]
                    ELSE IF DynamicAllowed(o, r.user) THEN Proceed(r)
                    ELSE Say(r, "denied")]
    /\ UNCHANGED <<callVars, hs, sp, cc, db>>

\* The reply_text the handler ends with, that of check_access included: it
\* is sent, or it raises, and nothing of these handlers catches that.
Reply(i, ok) ==
    /\ ac.h[i].pc = "reply"
    /\ ac' = [ac EXCEPT !.h[i] =
                [@ EXCEPT !.sent = IF ok THEN Append(@, ac.h[i].text) ELSE @,
                          !.pc = IF ok THEN "returned" ELSE "raised"]]
    /\ UNCHANGED <<callVars, hs, sp, cc, db>>

\* handle_message goes on after check_access: history and settings are read
\* and the messages are built; the placeholder is next.
Admit(i) ==
    /\ ac.h[i].pc = "passed"
    /\ hs[i].pc = "idle"
    /\ ac' = [ac EXCEPT !.h[i].pc = "running"]
    /\ hs' = [hs EXCEPT ![i].pc = "start"]
    /\ UNCHANGED <<callVars, sp, cc, db>>

\* adduser_command: is_dynamic_user_allowed(target_user_id) ends.
TargetLookup(i, o) ==
    /\ ac.h[i].pc = "target_lookup"
    /\ ac' = [ac EXCEPT !.h[i] =
                IF o = "noconn" THEN [@ EXCEPT !.pc = "raised"]
                ELSE IF DynamicAllowed(o, ac.h[i].target) THEN Say(@, "already")
                ELSE [@ EXCEPT !.pc = "add"]]
    /\ UNCHANGED <<callVars, hs, sp, cc, db>>

\* adduser_command: add_dynamic_user ends. INSERT OR IGNORE.
AddUser(i, o) ==
    /\ ac.h[i].pc = "add"
    /\ db' = [db EXCEPT !.dynamic_users =
                IF o = "ok" THEN @ \cup {ac.h[i].target} ELSE @]
    /\ ac' = [ac EXCEPT !.removed = IF o = "ok" THEN @ \ {ac.h[i].target} ELSE @,
                        !.h[i] = IF o = "noconn" THEN [@ EXCEPT !.pc = "raised"]
                                 ELSE IF o = "ok" THEN Say(@, "added")
                                 ELSE Say(@, "add_failed")]
    /\ UNCHANGED <<callVars, hs, sp, cc>>

\* removeuser_command: remove_dynamic_user ends; its value is the rowcount
\* of the DELETE, or 0 from the except branch.
RemoveUser(i, o) ==
    /\ ac.h[i].pc = "remove"
    /\ LET t == ac.h[i].target
           removed == IF o = "ok" /\ t \in db.dynamic_users THEN 1 ELSE 0
       IN /\ db' = [db EXCEPT !.dynamic_users = IF o = "ok" THEN @ \ {t} ELSE @]
          /\ ac' = [ac EXCEPT !.removed = IF removed > 0 THEN @ \cup {t} ELSE @,
                              !.h[i] = IF o = "noconn" THEN [@ EXCEPT !.pc = "raised"]
                                       ELSE IF removed <= 0 THEN Say(@, "not_listed")
                                       ELSE Say(@, "removed")]
    /\ UNCHANGED <<callVars, hs, sp, cc>>

\* The three handlers on two updates at a time, MaxUpdates updates in all,
\* from any user; the dynamic list starts with any of the other users. A
\* message that passes check_access goes on to its placeholder and to the
\* first request of its chat_stream call.
InitAccess ==
    /\ InitCalls
    /\ pc = [c \in Calls |-> "idle"]
    /\ kind = [c \in Calls |-> IF c \in Interactions THEN "stream" ELSE "none"]
    /\ observed = {}
    /\ faultBudget = 0
    /\ lineBudget = 0
    /\ hs = [i \in Interactions |-> HandlerIdle]
    /\ sp = SplitIdle
    /\ cc = CostIdle
    /\ \E d \in SUBSET (Users \ AllowedUsers) :
           db = [DbEmpty EXCEPT !.dynamic_users = d]
    /\ ac = AccessIdle

NextAccess ==
    \E i \in Interactions :
        \/ \E k \in {"message", "adduser", "removeuser"}, u \in Users, t \in Targets :
               Receive(i, k, u, t)
        \/ \E o \in DbOutcomes : Lookup(i, o)
        \/ \E ok \in BOOLEAN : Reply(i, ok)
        \/ Admit(i)
        \/ \E o \in DbOutcomes : TargetLookup(i, o)
        \/ \E o \in DbOutcomes : AddUser(i, o)
        \/ \E o \in DbOutcomes : RemoveUser(i, o)
        \/ \E ok \in BOOLEAN : Placeholder(i, ok)
        \/ GeneratorRuns(i) /\ Call(i) /\ UNCHANGED <<hs, sp, cc, db, ac>>
        \/ GeneratorRuns(i) /\ Acquire(i) /\ UNCHANGED <<hs, sp, cc, db, ac>>

SpecAccess == InitAccess /\ [][NextAccess]_vars


\* The messages check_access has settled whose sender was in neither list
\* when the lists were read.
Unlisted ==
    {i \in Interactions : /\ ac.h[i].kind = "message"
                          /\ ac.h[i].pc # "lookup"
                          /\ ~ac.h[i].listed}

\* Run i of handle_message has not sent its placeholder, has saved nothing
\* and has not called chat_stream.
NotStarted(i) ==
    /\ hs[i] = HandlerIdle
    /\ pc[i] = "idle"
    /\ i \notin holding

\* C37: a message from a user in neither allow-list, a failed lookup
\* included, leads to no placeholder, no upstream request and no save:
\* handle_message sends the access-denied reply, only that, and returns.
C37_DeniedRepliesAndReturns ==
    \A i \in Unlisted :
        /\ NotStarted(i)
        /\ ac.h[i].pc \in {"reply", "returned"}
        /\ ac.h[i].pc = "reply" => ac.h[i].text = "denied" /\ ac.h[i].sent = <<>>
        /\ ac.h[i].pc = "returned" => ac.h[i].sent = <<"denied">>

\* C37, amended: the same, except that handle_message raises, having sent
\* nothing, when the database cannot be opened for the lookup or the
\* access-denied reply cannot be sent.
C37_DeniedDoesNothingElse ==
    \A i \in Unlisted :
        /\ NotStarted(i)
        /\ ac.h[i].pc \in {"reply", "returned", "raised"}
        /\ ac.h[i].pc = "reply" => ac.h[i].text = "denied" /\ ac.h[i].sent = <<>>
        /\ ac.h[i].pc = "returned" => ac.h[i].sent = <<"denied">>
        /\ ac.h[i].pc = "raised" => ac.h[i].sent = <<>>

\* A user in neither list wrote, got the access-denied reply, and the handler
\* returned, while another message was let through to its placeholder.
C37_Witness ==
    /\ 2 \in Unlisted
    /\ ac.h[2].pc = "returned"
    /\ ac.h[2].sent = <<"denied">>
    /\ hs[1].display # <<>>


\* Handler i is an /adduser or /removeuser of the admin, at its call of
\* add_dynamic_user or remove_dynamic_user, and this step ends the call.
AdminCommandStep(i) ==
    /\ ac.h[i].kind \in {"adduser", "removeuser"}
    /\ ac.h[i].user = AdminId
    /\ ac.h[i].pc \in {"add", "remove"}
    /\ ac.h'[i].pc # ac.h[i].pc

\* This step ends the dynamic-list lookup of check_access for handler i.
AccessSettled(i) == ac.h[i].pc = "lookup" /\ ac.h'[i].pc # "lookup"

\* C38: whatever /adduser and /removeuser commands whoever sends, the dynamic
\* allow-list changes only in a command of the admin, a user of the static
\* list is never refused, and a user outside the static list whom a
\* /removeuser removed is off the dynamic list and is not let through by
\* check_access until an /adduser adds that user again.
C38_AllowListIntegrity ==
    /\ [][db.dynamic_users' # db.dynamic_users =>
              \E i \in Interactions : AdminCommandStep(i)]_vars
    /\ [](\A i \in Interactions :
              ac.h[i].user \in AllowedUsers =>
                  /\ ac.h[i].pc # "lookup"
                  /\ ac.h[i].text # "denied")
    /\ [](ac.removed \cap db.dynamic_users = {})
    /\ [][\A i \in Interactions :
              (AccessSettled(i) /\ ac.h[i].user \in ac.removed) =>
                  \/ ac.h'[i].pc = "raised"
                  \/ ac.h'[i].pc = "reply" /\ ac.h'[i].text = "denied"]_vars

\* The admin removed user 3 from the dynamic list, and a message user 3 sent
\* afterwards got the access-denied reply.
C38_Witness ==
    /\ ac.removed = {3}
    /\ ac.h[1].kind = "removeuser" /\ ac.h[1].sent = <<"removed">>
    /\ ac.h[2].kind = "message" /\ ac.h[2].user = 3
    /\ ac.h[2].sent = <<"denied">>


\* Two runs of handle_message for the same user, as in SpecTwo, with the
\* rows of the conversations table kept in the order of their INSERTs.
InitSave ==
    /\ InitCalls
    /\ pc = [c \in Calls |-> "idle"]
    /\ kind = [c \in Calls |-> IF c \in Interactions THEN "stream" ELSE "none"]
    /\ observed = {}
    /\ faultBudget = 0
    /\ lineBudget = MaxLines
    /\ hs = [i \in Interactions |-> [HandlerIdle EXCEPT !.pc = "start"]]
    /\ sp = SplitIdle
    /\ cc = CostIdle
    /\ db = [DbEmpty EXCEPT !.kept = TRUE]
    /\ ac = AccessIdle

SpecSave == InitSave /\ [][NextTwo]_vars

\* The positions of the rows of run i in the conversations table.
RowsOf(i) == {k \in 1..Len(db.conversations) : db.conversations[k].run = i}

=============================================================================
